---- MODULE Spec2Model ----
(***************************************************************************)
(* Itinerary API of the travel planner: the by-id endpoint                 *)
(* (pages/api/itineraries/[id].ts), the collaborate endpoint               *)
(* (pages/api/itineraries/[id]/collaborate.ts), the generate endpoint and  *)
(* the list endpoint, over one document store of itineraries and a fixed   *)
(* collection of users.  Every request is one action: the handler runs     *)
(* from the session check to the response.  The handlers that run side by  *)
(* side, and the save of a user document, are taken step by step in        *)
(* specifications of their own.                                            *)
(***************************************************************************)
EXTENDS Integers, Sequences, FiniteSets, TLC

VARIABLES itins, nextId, req, resp, users, calls

vars == <<itins, nextId, req, resp, users, calls>>

(***************************************************************************)
(* Bounds of the model.                                                    *)
(***************************************************************************)
\* how many itineraries are ever created (identifiers 1..MaxItins)
MaxItins == 1
\* longest collaborators array: of a request body, and of a stored itinerary
\* an add request still extends
MaxCollab == 1
\* how many times bcrypt.hash goes over one password
MaxHash == 3

(***************************************************************************)
(* Users, sessions and request inputs.                                     *)
(***************************************************************************)
Users == {"u1", "u2", "u3"}

\* getServerSession yields no session
NoSession == "anonymous"

Sessions == Users \cup {NoSession}

EmailOf == [u \in Users |-> IF u = "u1" THEN "u1@x" ELSE IF u = "u2" THEN "u2@x" ELSE "u3@x"]

NameOf == [u \in Users |-> IF u = "u1" THEN "Una" ELSE IF u = "u2" THEN "Uwe" ELSE "Uri"]

\* req.body.email of the collaborate POST: a registered email, an unknown one, or none
Emails == {EmailOf[u] : u \in Users} \cup {"nobody@x", ""}

\* req.body.collaboratorId of the collaborate DELETE: an identifier or none
CollaboratorIds == Users \cup {""}

ItinIds == 1..MaxItins

RECURSIVE SeqsUpTo(_, _)
SeqsUpTo(S, n) ==
  IF n = 0 THEN {<<>>}
  ELSE LET shorter == SeqsUpTo(S, n - 1)
       IN  shorter \cup {Append(s, x) : s \in {t \in shorter : Len(t) = n - 1}, x \in S}

CollabLists == SeqsUpTo(Users, MaxCollab)

\* a field of a JSON body: <<>> when the body omits it, <<v>> when it carries v
Opt(S) == {<<>>} \cup {<<v>> : v \in S}

\* req.body of PUT by id and of POST on the list endpoint, restricted to the
\* schema paths the permission rules read
Bodies == [userId : Opt(Users), collaborators : Opt(CollabLists), isPublic : Opt(BOOLEAN)]

(***************************************************************************)
(* Responses: res.status(s).json(body).                                    *)
(***************************************************************************)
\* mutation of Message: the body carries a success flag
MessageWithFlag(status, text) ==
  [status |-> status, hasSuccess |-> TRUE, message |-> text, kind |-> "none", data |-> <<>>]

\* { message } : no success flag, no data
Message(status, text) ==
  [status |-> status, hasSuccess |-> FALSE, message |-> text, kind |-> "none", data |-> <<>>]

\* { success: true, data: <one record> }
Data(status, rec) ==
  [status |-> status, hasSuccess |-> TRUE, message |-> "", kind |-> "record", data |-> <<rec>>]

\* { success: true, data: <array of records> }
DataList(status, recs) ==
  [status |-> status, hasSuccess |-> TRUE, message |-> "", kind |-> "list", data |-> recs]

\* { success: true, data: null }
DataNull(status) ==
  [status |-> status, hasSuccess |-> TRUE, message |-> "", kind |-> "null", data |-> <<>>]

\* { success: true, message }
SuccessMessage(status, text) ==
  [status |-> status, hasSuccess |-> TRUE, message |-> text, kind |-> "none", data |-> <<>>]

Unauthorized == Message(401, "Unauthorized")

MethodNotAllowed == Message(405, "Method not allowed")

ItineraryNotFound == Message(404, "Itinerary not found")

NotFoundOrNoPermission == Message(404, "Itinerary not found or you do not have permission")

(***************************************************************************)
(* The document store.                                                     *)
(***************************************************************************)
Contains(seq, x) == \E i \in 1..Len(seq) : seq[i] = x

\* Array.prototype.filter keeping the entries different from x
RECURSIVE FilterOut(_, _)
FilterOut(seq, x) ==
  IF seq = <<>> THEN <<>>
  ELSE IF Head(seq) = x THEN FilterOut(Tail(seq), x)
  ELSE <<Head(seq)>> \o FilterOut(Tail(seq), x)

\* .populate(path, 'name email') of one reference
Expanded(u) == [_id |-> u, name |-> NameOf[u], email |-> EmailOf[u]]

\* .populate('userId', 'name email').populate('collaborators', 'name email')
Populate(id, it) ==
  [_id |-> id,
   userId |-> Expanded(it.userId),
   collaborators |-> [i \in 1..Len(it.collaborators) |-> Expanded(it.collaborators[i])],
   isPublic |-> it.isPublic]

\* the document as Itinerary.create returns it (references not populated)
Document(id, it) ==
  [_id |-> id, userId |-> it.userId, collaborators |-> it.collaborators, isPublic |-> it.isPublic]

\* the store s without the document id
Without(s, id) == [i \in (DOMAIN s) \ {id} |-> s[i]]

\* the store s with the document id set to it
With(s, id, it) == [i \in (DOMAIN s) \cup {id} |-> IF i = id THEN it ELSE s[i]]

\* mutation of ReadFilter: the isPublic branch of the $or is missing
ReadFilterPrivate(it, u) == it.userId = u \/ Contains(it.collaborators, u)

\* { $or: [{ userId }, { collaborators }, { isPublic: true }] }
ReadFilter(it, u) == it.userId = u \/ Contains(it.collaborators, u) \/ it.isPublic

\* mutation of MutateFilter: the read filter is used for the update
MutateFilterPublic(it, u) == it.userId = u \/ Contains(it.collaborators, u) \/ it.isPublic

\* { $or: [{ userId }, { collaborators }] }
MutateFilter(it, u) == it.userId = u \/ Contains(it.collaborators, u)

\* { userId: session.user.id }
OwnerFilter(it, u) == it.userId = u

\* Itinerary.findOne({ _id: id, ...filter }) : found or not
FoundRead(s, id, u) == id \in DOMAIN s /\ ReadFilter(s[id], u)

FoundMutate(s, id, u) == id \in DOMAIN s /\ MutateFilter(s[id], u)

FoundOwned(s, id, u) == id \in DOMAIN s /\ OwnerFilter(s[id], u)

\* User.findOne({ email }) : <<>> or <<user>>
FindUserByEmail(email) ==
  IF \E u \in Users : EmailOf[u] = email
  THEN <<CHOOSE u \in Users : EmailOf[u] = email>>
  ELSE <<>>

\* {} : a body carrying none of the paths
EmptyBody == [userId |-> <<>>, collaborators |-> <<>>, isPublic |-> <<>>]

\* schema defaults of the paths a created document omits
DefaultCollaborators == <<>>

DefaultIsPublic == FALSE

\* findByIdAndUpdate(id, body): every path the body carries is set
ApplyUpdate(it, body) ==
  [userId |-> IF body.userId = <<>> THEN it.userId ELSE body.userId[1],
   collaborators |-> IF body.collaborators = <<>> THEN it.collaborators ELSE body.collaborators[1],
   isPublic |-> IF body.isPublic = <<>> THEN it.isPublic ELSE body.isPublic[1]]

\* mutation of ListFrom: the list query also matches public itineraries
RECURSIVE ListFromReadable(_, _, _)
ListFromReadable(s, u, n) ==
  IF n = 0 THEN <<>>
  ELSE IF n \in DOMAIN s /\ (s[n].userId = u \/ Contains(s[n].collaborators, u) \/ s[n].isPublic)
       THEN <<Populate(n, s[n])>> \o ListFromReadable(s, u, n - 1)
       ELSE ListFromReadable(s, u, n - 1)

\* Itinerary.find(filter).sort({ createdAt: -1 }) : newest first
RECURSIVE ListFrom(_, _, _)
ListFrom(s, u, n) ==
  IF n = 0 THEN <<>>
  ELSE IF n \in DOMAIN s /\ MutateFilter(s[n], u)
       THEN <<Populate(n, s[n])>> \o ListFrom(s, u, n - 1)
       ELSE ListFrom(s, u, n - 1)

(***************************************************************************)
(* Handlers as functions of the store and the request: the response and    *)
(* the store afterwards.                                                   *)
(***************************************************************************)
Outcome(r, s) == [resp |-> r, store |-> s]

\* GET /api/itineraries/[id]
GetOutcome(s, u, id) ==
  IF u = NoSession THEN Outcome(Unauthorized, s)
  ELSE IF ~FoundRead(s, id, u) THEN Outcome(ItineraryNotFound, s)
  ELSE Outcome(Data(200, Populate(id, s[id])), s)

\* PUT /api/itineraries/[id]
PutOutcome(s, u, id, body) ==
  IF u = NoSession THEN Outcome(Unauthorized, s)
  ELSE IF ~FoundMutate(s, id, u) THEN Outcome(NotFoundOrNoPermission, s)
  ELSE LET updated == ApplyUpdate(s[id], body)
       IN  Outcome(Data(200, Populate(id, updated)), With(s, id, updated))

\* mutation of DeleteOutcome: the lookup uses the update filter, so a
\* collaborator deletes
DeleteOutcomeByCollaborator(s, u, id) ==
  IF u = NoSession THEN Outcome(Unauthorized, s)
  ELSE IF ~(id \in DOMAIN s /\ (s[id].userId = u \/ Contains(s[id].collaborators, u)))
       THEN Outcome(NotFoundOrNoPermission, s)
  ELSE Outcome(SuccessMessage(200, "Itinerary deleted successfully"), Without(s, id))

\* mutation of DeleteOutcome: the itinerary is deleted before the owner is checked
DeleteOutcomeBeforeCheck(s, u, id) ==
  IF u = NoSession THEN Outcome(Unauthorized, s)
  ELSE IF ~FoundOwned(s, id, u) THEN Outcome(NotFoundOrNoPermission, Without(s, id))
  ELSE Outcome(SuccessMessage(200, "Itinerary deleted successfully"), Without(s, id))

\* DELETE /api/itineraries/[id]
DeleteOutcome(s, u, id) ==
  IF u = NoSession THEN Outcome(Unauthorized, s)
  ELSE IF ~FoundOwned(s, id, u) THEN Outcome(NotFoundOrNoPermission, s)
  ELSE Outcome(SuccessMessage(200, "Itinerary deleted successfully"), Without(s, id))

\* mutation of AddOutcome: the already-a-collaborator check is missing
AddOutcomeNoDuplicateCheck(s, u, id, email) ==
  IF u = NoSession THEN Outcome(Unauthorized, s)
  ELSE IF email = "" THEN Outcome(Message(400, "Please provide an email"), s)
  ELSE IF ~(id \in DOMAIN s /\ s[id].userId = u) THEN Outcome(NotFoundOrNoPermission, s)
  ELSE LET collaborator == FindUserByEmail(email)
       IN  IF collaborator = <<>> THEN Outcome(Message(404, "User not found"), s)
           ELSE IF collaborator[1] = u
                THEN Outcome(Message(400, "You cannot add yourself as a collaborator"), s)
           ELSE LET saved == [s[id] EXCEPT !.collaborators = Append(@, collaborator[1])]
                IN  Outcome(Data(200, Populate(id, saved)), With(s, id, saved))

\* mutation of AddOutcome: the self-add check is missing
AddOutcomeSelfAllowed(s, u, id, email) ==
  IF u = NoSession THEN Outcome(Unauthorized, s)
  ELSE IF email = "" THEN Outcome(Message(400, "Please provide an email"), s)
  ELSE IF ~(id \in DOMAIN s /\ s[id].userId = u) THEN Outcome(NotFoundOrNoPermission, s)
  ELSE LET collaborator == FindUserByEmail(email)
       IN  IF collaborator = <<>> THEN Outcome(Message(404, "User not found"), s)
           ELSE IF Contains(s[id].collaborators, collaborator[1])
                THEN Outcome(Message(400, "User is already a collaborator"), s)
           ELSE LET saved == [s[id] EXCEPT !.collaborators = Append(@, collaborator[1])]
                IN  Outcome(Data(200, Populate(id, saved)), With(s, id, saved))

\* POST /api/itineraries/[id]/collaborate
AddOutcome(s, u, id, email) ==
  IF u = NoSession THEN Outcome(Unauthorized, s)
  ELSE IF email = "" THEN Outcome(Message(400, "Please provide an email"), s)
  ELSE IF ~FoundOwned(s, id, u) THEN Outcome(NotFoundOrNoPermission, s)
  ELSE LET collaborator == FindUserByEmail(email)
       IN  IF collaborator = <<>> THEN Outcome(Message(404, "User not found"), s)
           ELSE IF collaborator[1] = u
                THEN Outcome(Message(400, "You cannot add yourself as a collaborator"), s)
           ELSE IF Contains(s[id].collaborators, collaborator[1])
                THEN Outcome(Message(400, "User is already a collaborator"), s)
           ELSE LET saved == [s[id] EXCEPT !.collaborators = Append(@, collaborator[1])]
                IN  Outcome(Data(200, Populate(id, saved)), With(s, id, saved))

\* mutation of RemoveOutcome: removing somebody who is no collaborator is an error
RemoveOutcomeMembersOnly(s, u, id, collaboratorId) ==
  IF u = NoSession THEN Outcome(Unauthorized, s)
  ELSE IF collaboratorId = "" THEN Outcome(Message(400, "Please provide a collaborator ID"), s)
  ELSE IF ~(id \in DOMAIN s /\ s[id].userId = u) THEN Outcome(NotFoundOrNoPermission, s)
  ELSE IF ~Contains(s[id].collaborators, collaboratorId)
       THEN Outcome(Message(404, "Collaborator not found"), s)
  ELSE LET saved == [s[id] EXCEPT !.collaborators = FilterOut(@, collaboratorId)]
       IN  Outcome(Data(200, Populate(id, saved)), With(s, id, saved))

\* mutation of RemoveOutcome: an itinerary of somebody else is told apart
\* from a missing one
RemoveOutcomeForbidden(s, u, id, collaboratorId) ==
  IF u = NoSession THEN Outcome(Unauthorized, s)
  ELSE IF collaboratorId = "" THEN Outcome(Message(400, "Please provide a collaborator ID"), s)
  ELSE IF id \notin DOMAIN s THEN Outcome(NotFoundOrNoPermission, s)
  ELSE IF s[id].userId # u THEN Outcome(Message(403, "You do not have permission"), s)
  ELSE LET saved == [s[id] EXCEPT !.collaborators = FilterOut(@, collaboratorId)]
       IN  Outcome(Data(200, Populate(id, saved)), With(s, id, saved))

\* DELETE /api/itineraries/[id]/collaborate
RemoveOutcome(s, u, id, collaboratorId) ==
  IF u = NoSession THEN Outcome(Unauthorized, s)
  ELSE IF collaboratorId = "" THEN Outcome(Message(400, "Please provide a collaborator ID"), s)
  ELSE IF ~FoundOwned(s, id, u) THEN Outcome(NotFoundOrNoPermission, s)
  ELSE LET saved == [s[id] EXCEPT !.collaborators = FilterOut(@, collaboratorId)]
       IN  Outcome(Data(200, Populate(id, saved)), With(s, id, saved))

\* GET /api/itineraries
ListOutcome(s, u) ==
  IF u = NoSession THEN Outcome(Unauthorized, s)
  ELSE Outcome(DataList(200, ListFrom(s, u, MaxItins)), s)

\* mutation of ManualDocument: the userId of the body is kept
ManualDocumentBodyOwner(u, body) ==
  [userId |-> IF body.userId = <<>> THEN u ELSE body.userId[1],
   collaborators |-> IF body.collaborators = <<>> THEN DefaultCollaborators
                     ELSE body.collaborators[1],
   isPublic |-> IF body.isPublic = <<>> THEN DefaultIsPublic ELSE body.isPublic[1]]

\* the document POST /api/itineraries creates: { ...req.body, userId: session.user.id }
ManualDocument(u, body) ==
  [userId |-> u,
   collaborators |-> IF body.collaborators = <<>> THEN DefaultCollaborators
                     ELSE body.collaborators[1],
   isPublic |-> IF body.isPublic = <<>> THEN DefaultIsPublic ELSE body.isPublic[1]]

\* the document POST /api/itineraries/generate creates
GeneratedDocument(u) == [userId |-> u, collaborators |-> <<>>, isPublic |-> FALSE]

\* how the generate handler ends once the parameters are there: the store
\* connection fails, the generation client throws, no parse stage succeeds,
\* the parsed payload has no days array, the days array is empty, or the
\* payload is accepted
PipelineResults ==
  {"connectionFailed", "generationFailed", "unparseable", "missingDays", "noDays", "ok"}

\* the message of the 500 response for each failure
PipelineError ==
  [r \in PipelineResults \ {"ok"} |->
     IF r = "connectionFailed" THEN "Database connection failed. Error: unreachable"
     ELSE IF r = "generationFailed" THEN "All models failed"
     ELSE IF r = "unparseable"
          THEN "Failed to parse itinerary data: No valid JSON found. Unexpected token The AI response was invalid. Please try again."
     ELSE IF r = "missingDays" THEN "Invalid itinerary data: Missing days array"
     ELSE "Invalid itinerary data: No days generated"]

(***************************************************************************)
(* The state machine.                                                      *)
(***************************************************************************)
Request(op, u, id, arg) == [op |-> op, user |-> u, id |-> id, arg |-> arg]

NoRequest == Request("none", NoSession, 0, "")

NoResponse == Message(0, "")

\* the handler invocations and document saves that can be under way together
Workers == {"w1", "w2"}

\* a password: the text typed, and how many times bcrypt.hash went over it
Password(plain, hashes) == [plain |-> plain, hashes |-> hashes]

\* the User collection: every account registered, its password hashed once
Accounts == [u \in Users |-> [password |-> Password("secret", 1)]]

\* a worker with nothing under way
NoCall ==
  [op |-> "none", user |-> NoSession, id |-> 0, arg |-> "", pc |-> "idle", read |-> <<>>,
   resp |-> NoResponse]

Init ==
  /\ itins = <<>>
  /\ nextId = 1
  /\ req = NoRequest
  /\ resp = NoResponse
  /\ users = Accounts
  /\ calls = [w \in Workers |-> NoCall]

\* no exchange is under way: the client has read the last response
Idle == req.op = "none"

\* a handler takes the request op(u, id, arg) and ends with outcome o
Respond(op, u, id, arg, o) ==
  /\ itins' = o.store
  /\ req' = Request(op, u, id, arg)
  /\ resp' = o.resp
  /\ UNCHANGED <<nextId, users, calls>>

\* Itinerary.create(doc) and the 201 response
Create(op, u, doc) ==
  /\ nextId <= MaxItins
  /\ itins' = With(itins, nextId, doc)
  /\ nextId' = nextId + 1
  /\ req' = Request(op, u, nextId, "")
  /\ resp' = Data(201, Document(nextId, doc))
  /\ UNCHANGED <<users, calls>>

\* a request that carries no session is answered before the handler reads
\* the query or the body
NoSessionRequest(op) == Respond(op, NoSession, 0, "", Outcome(Unauthorized, itins))

GetItinerary ==
  /\ Idle
  /\ \/ NoSessionRequest("GET")
     \/ \E u \in Users, id \in ItinIds :
          Respond("GET", u, id, "", GetOutcome(itins, u, id))

PutItinerary ==
  /\ Idle
  /\ \/ NoSessionRequest("PUT")
     \/ \E u \in Users, id \in ItinIds :
          IF FoundMutate(itins, id, u)
          THEN \E body \in Bodies : Respond("PUT", u, id, "", PutOutcome(itins, u, id, body))
          ELSE Respond("PUT", u, id, "", PutOutcome(itins, u, id, EmptyBody))

DeleteItinerary ==
  /\ Idle
  /\ \/ NoSessionRequest("DELETE")
     \/ \E u \in Users, id \in ItinIds :
          Respond("DELETE", u, id, "", DeleteOutcome(itins, u, id))

PostCollaborate ==
  /\ Idle
  /\ \/ NoSessionRequest("ADD")
     \/ \E u \in Users, id \in ItinIds, email \in Emails :
          LET o == AddOutcome(itins, u, id, email)
          IN  /\ \A i \in DOMAIN o.store : Len(o.store[i].collaborators) <= MaxCollab
              /\ Respond("ADD", u, id, email, o)

DeleteCollaborate ==
  /\ Idle
  /\ \/ NoSessionRequest("REMOVE")
     \/ \E u \in Users, id \in ItinIds, collaboratorId \in CollaboratorIds :
          Respond("REMOVE", u, id, collaboratorId, RemoveOutcome(itins, u, id, collaboratorId))

GetItineraries ==
  /\ Idle
  /\ \/ NoSessionRequest("LIST")
     \/ \E u \in Users :
          Respond("LIST", u, 0, "", ListOutcome(itins, u))

\* POST /api/itineraries : Itinerary.create({ ...req.body, userId: session.user.id })
PostItineraries ==
  /\ Idle
  /\ \/ NoSessionRequest("CREATE")
     \/ \E u \in Users, body \in Bodies :
          Create("CREATE", u, ManualDocument(u, body))

\* POST /api/itineraries/generate
PostGenerate ==
  /\ Idle
  /\ \/ NoSessionRequest("GENERATE")
     \/ \E u \in Users :
          Respond("GENERATE", u, 0, "",
                  Outcome(Message(400, "Please provide destination, days, and budget"), itins))
     \/ \E u \in Users, result \in PipelineResults \ {"ok"} :
          Respond("GENERATE", u, 0, "", Outcome(Message(500, PipelineError[result]), itins))
     \/ \E u \in Users :
          Create("GENERATE", u, GeneratedDocument(u))

\* any other method on an endpoint that dispatches on req.method after the session check
OtherMethod ==
  /\ Idle
  /\ \E op \in {"OTHER_ID", "OTHER_COLLABORATE", "OTHER_LIST"} :
       \/ NoSessionRequest(op)
       \/ \E u \in Users : Respond(op, u, 0, "", Outcome(MethodNotAllowed, itins))

\* any method but POST on the generate endpoint: refused before the session is read
GenerateOtherMethod ==
  /\ Idle
  /\ Respond("OTHER_GENERATE", NoSession, 0, "", Outcome(MethodNotAllowed, itins))

\* the client reads the response (const data = await res.json()); its next
\* request starts from the store alone
ReadResponse ==
  /\ ~Idle
  /\ req' = NoRequest
  /\ resp' = NoResponse
  /\ UNCHANGED <<itins, nextId, users, calls>>

Next ==
  \/ PostItineraries
  \/ PostGenerate
  \/ OtherMethod
  \/ GenerateOtherMethod
  \/ GetItinerary
  \/ PutItinerary
  \/ DeleteItinerary
  \/ PostCollaborate
  \/ DeleteCollaborate
  \/ GetItineraries
  \/ ReadResponse

Spec == Init /\ [][Next]_vars

(***************************************************************************)
(* The generate endpoint in full: request parameters, the raw text of the  *)
(* generation client, the parse stages, the validation of the days array   *)
(* and the document that is created.                                       *)
(***************************************************************************)
\* a day of a payload: plain, or with a fence marker (three backticks) inside one of its strings
DayPlain == "day"

DayWithFence == "day with a fence marker in a note"

Days == {DayPlain, DayWithFence}

\* parsedData.days: missing, not an array, or an array of days
DaysFields ==
  {[is |-> "missing", items |-> <<>>], [is |-> "notArray", items |-> <<>>]}
    \cup {[is |-> "array", items |-> d] :
            d \in {<<>>, <<DayPlain>>, <<DayPlain, DayPlain>>, <<DayWithFence>>}}

\* the optional top-level members of a payload: all there, or all omitted
SuppliedTop ==
  [destination |-> <<"Rome, Italy">>, budget |-> <<"EUR 900">>,
   interests |-> <<<<"Art">>>>, summary |-> <<"summary of the model">>]

OmittedTop == [destination |-> <<>>, budget |-> <<>>, interests |-> <<>>, summary |-> <<>>]

\* the members supplied, the strings empty and the array empty
FalsyTop ==
  [destination |-> <<"">>, budget |-> <<"">>, interests |-> <<<<>>>>,
   summary |-> <<"summary of the model">>]

\* parsedData: the object a parse stage yields
Payload(top, totalDays, days) == [top |-> top, totalDays |-> totalDays, days |-> days]

TwoDays == [is |-> "array", items |-> <<DayPlain, DayPlain>>]

Payloads ==
  {Payload(OmittedTop, <<>>, d) : d \in DaysFields}
    \cup {Payload(SuppliedTop, n, TwoDays) : n \in Opt({0, 5})}
    \cup {Payload(OmittedTop, <<5>>, [is |-> "array", items |-> <<DayPlain>>]),
          Payload(FalsyTop, <<0>>, TwoDays)}

EmptyObject == [top |-> OmittedTop, totalDays |-> <<>>, days |-> [is |-> "missing", items |-> <<>>]]

\* the raw text as tokens: an opening or closing brace, the members of an
\* object, a fence marker with or without json after it, a newline, prose
Token(t) == [t |-> t, members |-> EmptyObject]

Members(p) == [t |-> "members", members |-> p]

LBrace == Token("{")

RBrace == Token("}")

FenceJson == Token("fence json")

Fence == Token("fence")

Newline == Token("\n")

Prose == Token("prose")

ObjectText(p) == <<LBrace, Members(p), RBrace>>

\* a payload that passes the validation
PlainPayload == [top |-> SuppliedTop, totalDays |-> <<>>, days |-> [is |-> "array", items |-> <<DayPlain>>]]

\* itineraryData: what generateItinerary returns
Texts ==
  UNION {{ObjectText(p), <<FenceJson, Newline>> \o ObjectText(p) \o <<Newline, Fence>>} :
           p \in Payloads}
    \cup {<<Fence, Newline>> \o ObjectText(PlainPayload) \o <<Newline, Fence>>,
          <<Prose, Newline>> \o ObjectText(PlainPayload) \o <<Newline, Prose>>,
          ObjectText(PlainPayload) \o <<Prose, RBrace>>,
          <<LBrace, Members(PlainPayload)>>,
          <<>>, <<Prose>>, <<LBrace, RBrace>>}

\* how much of the text the handler logs: itineraryData.substring(0, PreviewLength)
PreviewLength == 500

\* the first n pieces of the text, spelled out
RECURSIVE Spell(_, _)
Spell(text, n) ==
  IF text = <<>> \/ n = 0 THEN "" ELSE Head(text).t \o Spell(Tail(text), n - 1)

Preview(text) == Spell(text, PreviewLength)

\* String.prototype.trim
RECURSIVE TrimLeft(_)
TrimLeft(text) ==
  IF text # <<>> /\ Head(text) = Newline THEN TrimLeft(Tail(text)) ELSE text

RECURSIVE TrimRight(_)
TrimRight(text) ==
  IF text # <<>> /\ text[Len(text)] = Newline
  THEN TrimRight(SubSeq(text, 1, Len(text) - 1))
  ELSE text

Trim(text) == TrimRight(TrimLeft(text))

\* JSON.parse(text): <<>> on a SyntaxError, else <<value>>
JsonParse(text) ==
  LET t == SelectSeq(text, LAMBDA k : k # Newline)
  IN  IF Len(t) = 3 /\ t[1] = LBrace /\ t[2].t = "members" /\ t[3] = RBrace
      THEN <<t[2].members>>
      ELSE IF t = <<LBrace, RBrace>> THEN <<EmptyObject>>
      ELSE <<>>

\* the fence markers inside the strings of a day go with the markers around the text
StripDay(d) == IF d = DayWithFence THEN DayPlain ELSE d

StripMembers(p) ==
  [p EXCEPT !.days.items = [i \in 1..Len(p.days.items) |-> StripDay(p.days.items[i])]]

\* the two replace calls: every fence marker goes, with one newline after it
RECURSIVE StripFences(_)
StripFences(text) ==
  IF text = <<>> THEN <<>>
  ELSE IF Head(text) \in {FenceJson, Fence}
       THEN IF Len(text) > 1 /\ text[2] = Newline
            THEN StripFences(Tail(Tail(text)))
            ELSE StripFences(Tail(text))
  ELSE IF Head(text).t = "members"
       THEN <<Members(StripMembers(Head(text).members))>> \o StripFences(Tail(text))
  ELSE <<Head(text)>> \o StripFences(Tail(text))

\* cleanedData.match: from the first { to the last }, <<>> when no match
BraceMatch(text) ==
  LET opens == {i \in 1..Len(text) : text[i] = LBrace}
      closes == {i \in 1..Len(text) : text[i] = RBrace}
  IN  IF opens = {} THEN <<>>
      ELSE LET first == CHOOSE i \in opens : \A j \in opens : i <= j
           IN  IF \E j \in closes : j > first
               THEN <<SubSeq(text, first, CHOOSE j \in closes : \A k \in closes : k <= j)>>
               ELSE <<>>

\* parseError.message of the first JSON.parse
Diagnostic == "Unexpected token"

\* the concatenation of the strings of parts
RECURSIVE Join(_)
Join(parts) == IF parts = <<>> THEN "" ELSE Head(parts) \o Join(Tail(parts))

\* throw new Error(parts[1] + parts[2] + ...)
FailedToParse(parts) ==
  [ok |-> FALSE, value |-> EmptyObject, error |-> Join(parts), parts |-> parts]

\* the parse stages: [ok, value] or [ok = FALSE, error], the error with
\* the strings it is made of
ParseItinerary(text) ==
  LET direct == JsonParse(text)
  IN  IF direct # <<>> THEN [ok |-> TRUE, value |-> direct[1], error |-> "", parts |-> <<>>]
      ELSE LET jsonMatch == BraceMatch(Trim(StripFences(text)))
           IN  IF jsonMatch = <<>>
               THEN FailedToParse(<<"Failed to parse itinerary data: No valid JSON found. ",
                                    Diagnostic>>)
               ELSE LET again == JsonParse(jsonMatch[1])
                    IN  IF again # <<>>
                        THEN [ok |-> TRUE, value |-> again[1], error |-> "", parts |-> <<>>]
                        ELSE FailedToParse(<<"Failed to parse itinerary data: ", Diagnostic>>)

\* req.body of the generate request
Params(destination, days, budget, interests) ==
  [destination |-> destination, days |-> days, budget |-> budget, interests |-> interests]

GenerateParams ==
  {Params("Paris", d, "$1000", <<>>) : d \in {"", "2", "-1", "abc"}}
    \cup {Params("Paris", "2", "$1000", <<<<"Food">>>>),
          Params("", "2", "$1000", <<>>),
          Params("Paris", "2", "", <<>>)}

\* the users who ask for a generation
Requesters == {"u1", "u2"}

\* parseInt(days): <<>> for NaN
ParseInt(days) ==
  IF days = "2" THEN <<2>> ELSE IF days = "-1" THEN <<-1>> ELSE <<>>

\* days > 1 on the string of the request
MoreThanOne(days) == days = "2"

\* mutation of GenerateDocument: the destination of the request goes first
GenerateDocumentRequestFirst(u, params, parsedData) ==
  [userId |-> u,
   title |-> <<params.destination, params.days, IF MoreThanOne(params.days) THEN "Days" ELSE "Day">>,
   destination |-> params.destination,
   totalDays |-> IF parsedData.totalDays # <<>> /\ parsedData.totalDays[1] # 0
                 THEN parsedData.totalDays
                 ELSE ParseInt(params.days),
   budget |-> IF parsedData.top.budget # <<>> /\ parsedData.top.budget[1] # ""
              THEN parsedData.top.budget[1]
              ELSE params.budget,
   interests |-> IF parsedData.top.interests # <<>> THEN parsedData.top.interests[1]
                 ELSE IF params.interests # <<>> THEN params.interests[1]
                 ELSE <<>>,
   days |-> parsedData.days.items,
   summary |-> IF parsedData.top.summary # <<>> THEN parsedData.top.summary[1]
               ELSE "summary from the budget",
   collaborators |-> <<>>,
   isPublic |-> FALSE]

\* the object handed to Itinerary.create: a || b is b when a is missing, 0
\* or the empty string
GenerateDocument(u, params, parsedData) ==
  [userId |-> u,
   title |-> <<params.destination, params.days, IF MoreThanOne(params.days) THEN "Days" ELSE "Day">>,
   destination |-> IF parsedData.top.destination # <<>> /\ parsedData.top.destination[1] # ""
                   THEN parsedData.top.destination[1]
                   ELSE params.destination,
   totalDays |-> IF parsedData.totalDays # <<>> /\ parsedData.totalDays[1] # 0
                 THEN parsedData.totalDays
                 ELSE ParseInt(params.days),
   budget |-> IF parsedData.top.budget # <<>> /\ parsedData.top.budget[1] # ""
              THEN parsedData.top.budget[1]
              ELSE params.budget,
   interests |-> IF parsedData.top.interests # <<>> THEN parsedData.top.interests[1]
                 ELSE IF params.interests # <<>> THEN params.interests[1]
                 ELSE <<>>,
   days |-> parsedData.days.items,
   summary |-> IF parsedData.top.summary # <<>> THEN parsedData.top.summary[1]
               ELSE "summary from the budget",
   collaborators |-> <<>>,
   isPublic |-> FALSE]

\* the 500 body of the outer catch: the message, with its hint
CaughtError(message) ==
  IF message = "Invalid itinerary data: Missing days array"
       \/ message = "Invalid itinerary data: No days generated"
       \/ message = "All models failed"
       \/ message = "Itinerary validation failed: totalDays"
  THEN Message(500, message)
  ELSE Message(500, message \o " The AI response was invalid. Please try again.")

NoGeneration == [ok |-> FALSE, text |-> <<>>]

\* what generateItinerary does: it throws, or returns a text
Generations == {NoGeneration} \cup {[ok |-> TRUE, text |-> t] : t \in Texts}

\* mutation of ValidateDays: an empty days array is reported as a missing one
ValidateDaysOneError(parsedData) ==
  IF parsedData.days.is # "array" \/ Len(parsedData.days.items) = 0
  THEN "Invalid itinerary data: Missing days array"
  ELSE ""

\* the two checks on parsedData.days: the message of the error thrown, "" when none
ValidateDays(parsedData) ==
  IF parsedData.days.is # "array" THEN "Invalid itinerary data: Missing days array"
  ELSE IF Len(parsedData.days.items) = 0 THEN "Invalid itinerary data: No days generated"
  ELSE ""

\* mutation of Created: the 201 response without the write
CreatedNotStored(s, n, doc) ==
  [resp |-> Data(201, doc @@ [_id |-> n]), store |-> s, next |-> n + 1]

\* Itinerary.create(doc) and the 201 response
Created(s, n, doc) ==
  [resp |-> Data(201, doc @@ [_id |-> n]), store |-> With(s, n, doc), next |-> n + 1]

\* POST /api/itineraries/generate, from the session check to the response:
\* the response, the store afterwards and the next free identifier
GenerateOutcome(s, n, u, params, connected, generation) ==
  LET failed(r) == [resp |-> r, store |-> s, next |-> n]
  IN  IF u = NoSession THEN failed(Unauthorized)
      ELSE IF params.destination = "" \/ params.days = "" \/ params.budget = ""
           THEN failed(Message(400, "Please provide destination, days, and budget"))
      ELSE IF ~connected
           THEN failed(Message(500, "Database connection failed. Error: unreachable"))
      ELSE IF ~generation.ok THEN failed(CaughtError("All models failed"))
      ELSE LET parsed == ParseItinerary(generation.text)
           IN  IF ~parsed.ok THEN failed(CaughtError(parsed.error))
               ELSE IF ValidateDays(parsed.value) # ""
                    THEN failed(CaughtError(ValidateDays(parsed.value)))
               ELSE LET doc == GenerateDocument(u, params, parsed.value)
                    IN  IF doc.totalDays = <<>>
                        THEN failed(CaughtError("Itinerary validation failed: totalDays"))
                        ELSE Created(s, n, [doc EXCEPT !.totalDays = @[1]])

\* req.body when the three required parameters are there
CompleteParams ==
  {p \in GenerateParams : p.destination # "" /\ p.days # "" /\ p.budget # ""}

\* the inputs of one generate request
GenerateInput(params, connected, generation) ==
  [params |-> params, connected |-> connected, generation |-> generation]

\* the generate handler answers the request of u
Generated(u, params, connected, generation) ==
  LET o == GenerateOutcome(itins, nextId, u, params, connected, generation)
  IN  /\ o.next <= MaxItins + 1
      /\ itins' = o.store
      /\ nextId' = o.next
      /\ req' = Request("GENERATE", u, 0, GenerateInput(params, connected, generation))
      /\ resp' = o.resp
      /\ UNCHANGED <<users, calls>>

\* a request the handler refuses before it calls the generation client
GenerateRefused ==
  /\ Idle
  /\ \/ Generated(NoSession, Params("Paris", "2", "$1000", <<>>), TRUE, NoGeneration)
     \/ \E u \in Requesters, params \in GenerateParams \ CompleteParams :
          Generated(u, params, TRUE, NoGeneration)
     \/ \E u \in Requesters, params \in CompleteParams : Generated(u, params, FALSE, NoGeneration)

\* a request that reaches the generation client
Generate ==
  /\ Idle
  /\ \E u \in Requesters, params \in CompleteParams, generation \in Generations :
       Generated(u, params, TRUE, generation)

\* any method but POST
GenerateWrongMethod ==
  /\ Idle
  /\ UNCHANGED <<itins, nextId, users, calls>>
  /\ req' = Request("OTHER_GENERATE", NoSession, 0, GenerateInput(Params("Paris", "2", "$1000", <<>>), TRUE, NoGeneration))
  /\ resp' = MethodNotAllowed

NextGen ==
  \/ GenerateRefused
  \/ Generate
  \/ GenerateWrongMethod
  \/ ReadResponse

SpecGen == Init /\ [][NextGen]_vars

(***************************************************************************)
(* The itinerary detail page: what it computes from the session and the    *)
(* record that GET /api/itineraries/[id] returned.                         *)
(***************************************************************************)
\* value.toString(): a string is itself, a record is "[object Object]"
toString(form, value) == IF form = "primitive" THEN value ELSE "[object Object]"

\* isOwner, on the populated record of the GET response
DetailIsOwner(sessionId, itinerary) == sessionId = toString("expanded", itinerary.userId)

\* isCollaborator, on the populated record of the GET response
DetailIsCollaborator(sessionId, itinerary) ==
  \E i \in 1..Len(itinerary.collaborators) :
    LET collab == itinerary.collaborators[i]
    IN  \/ toString("expanded", collab) = sessionId
        \/ collab._id = sessionId

(***************************************************************************)
(* The save of a user document, with its pre-save hook, step by step.      *)
(* calls[w].read holds the document in memory: its password and whether    *)
(* isModified('password') is true.                                         *)
(***************************************************************************)
\* bcrypt.hash(password, salt)
Hash(password) == [password EXCEPT !.hashes = @ + 1]

\* bcrypt.compare(enteredPassword, password)
ComparePassword(enteredPassword, password) ==
  password.hashes = 1 /\ password.plain = enteredPassword

\* a user document in memory
UserDocument(password, modified) == [password |-> password, modified |-> modified]

\* the worker w holds the user document doc of u, the save at pc
Holding(w, u, doc, pc) ==
  calls' = [calls EXCEPT ![w] = [NoCall EXCEPT !.op = "SAVE", !.user = u, !.pc = pc,
                                                !.read = <<doc>>]]

\* one user document is in memory at a time
OnlyWorker(w) == \A o \in Workers \ {w} : calls[o] = NoCall

\* a request loads the document of u
LoadUser(w) ==
  /\ OnlyWorker(w)
  /\ calls[w] = NoCall
  /\ \E u \in Users : Holding(w, u, UserDocument(users[u].password, FALSE), "loaded")
  /\ UNCHANGED <<itins, nextId, req, resp, users>>

\* the request assigns a new password to the document
SetPassword(w) ==
  /\ calls[w].op = "SAVE"
  /\ calls[w].pc = "loaded"
  /\ Holding(w, calls[w].user, UserDocument(Password("changed", 0), TRUE), "loaded")
  /\ UNCHANGED <<itins, nextId, req, resp, users>>

\* document.save() enters the pre-save hook: with the password unmodified the
\* hook calls next(), the save goes on and writes no password, and the hook
\* runs on behind it; with the password modified the save waits for the hook
SaveUser(w) ==
  /\ calls[w].op = "SAVE"
  /\ calls[w].pc = "loaded"
  /\ Holding(w, calls[w].user, calls[w].read[1],
             IF calls[w].read[1].modified THEN "hook" ELSE "detached")
  /\ UNCHANGED <<itins, nextId, req, resp, users>>

\* the rest of the hook: this.password = await bcrypt.hash(this.password, salt).
\* The save that waited writes the password; behind a save that went on, the
\* hash stays in memory, modified or not as the save resets the document
\* after or before it
HookHash(w) ==
  /\ calls[w].op = "SAVE"
  /\ calls[w].pc \in {"hook", "detached"}
  /\ calls[w].read[1].password.hashes < MaxHash
  /\ LET hashed == Hash(calls[w].read[1].password)
     IN  IF calls[w].pc = "hook"
         THEN /\ users' = [users EXCEPT ![calls[w].user].password = hashed]
              /\ Holding(w, calls[w].user, UserDocument(hashed, FALSE), "loaded")
         ELSE /\ users' = users
              /\ \E modified \in BOOLEAN :
                   Holding(w, calls[w].user, UserDocument(hashed, modified), "loaded")
  /\ UNCHANGED <<itins, nextId, req, resp>>

\* the request ends and drops the document
ReleaseUser(w) ==
  /\ calls[w].op = "SAVE"
  /\ calls[w].pc = "loaded"
  /\ calls' = [calls EXCEPT ![w] = NoCall]
  /\ UNCHANGED <<itins, nextId, req, resp, users>>

NextUser ==
  \E w \in Workers :
    \/ LoadUser(w)
    \/ SetPassword(w)
    \/ SaveUser(w)
    \/ HookHash(w)
    \/ ReleaseUser(w)

SpecUser == Init /\ [][NextUser]_vars

(***************************************************************************)
(* The collaborate handlers side by side on one itinerary, step by step:   *)
(* findOne, the change of the document in memory and save(), the read of   *)
(* the updated document.  save() sends the changes of the document in      *)
(* memory: a push on the collaborators array as a push on the stored       *)
(* array, an assignment of the array as a write of the whole array, which  *)
(* with the version key must match the version read.                       *)
(***************************************************************************)
\* the versionKey option of the itinerary schema: kept, or switched off
VersionKeys == BOOLEAN

\* the itinerary the handlers work on, as stored before them
RaceDocuments ==
  {[userId |-> "u1", collaborators |-> c, isPublic |-> FALSE, versionKey |-> k, __v |-> 0] :
     c \in {<<>>, <<"u2">>}, k \in VersionKeys}

InitRace ==
  /\ itins \in {<<doc>> : doc \in RaceDocuments}
  /\ nextId = Len(itins) + 1
  /\ req = NoRequest
  /\ resp = NoResponse
  /\ users = Accounts
  /\ calls = [w \in Workers |-> NoCall]

\* the invocation of w: the request, where the handler is, the document
\* that findOne returned and the response
Call(op, u, id, arg, pc, read, r) ==
  [op |-> op, user |-> u, id |-> id, arg |-> arg, pc |-> pc, read |-> read, resp |-> r]

\* the handler of w returns r
Finished(w, r) ==
  calls' = [calls EXCEPT ![w] = [@ EXCEPT !.pc = "done", !.resp = r]]

\* mutation of SavePush: save() writes the array of the document in memory
SavePushOverwrite(stored, read, x) ==
  [stored EXCEPT !.collaborators = Append(read.collaborators, x),
                 !.__v = IF stored.versionKey THEN @ + 1 ELSE @]

\* save() after collaborators.push(x): x is pushed on the stored array and
\* the version, when kept, is incremented
SavePush(stored, read, x) ==
  [stored EXCEPT !.collaborators = Append(@, x),
                 !.__v = IF stored.versionKey THEN @ + 1 ELSE @]

\* save() after collaborators = value: the array is written; with the
\* version key, only when the stored version is the one read, and the
\* version is incremented: <<>> (VersionError) when it is another
SaveSet(stored, read, value) ==
  IF ~stored.versionKey THEN <<[stored EXCEPT !.collaborators = value]>>
  ELSE IF stored.__v = read.__v
       THEN <<[stored EXCEPT !.collaborators = value, !.__v = @ + 1]>>
  ELSE <<>>

VersionError == Message(500, "No matching document found for id and version")

\* POST collaborate, to the end of findOne
BeginAdd(w) ==
  /\ calls[w].pc = "idle"
  /\ \E u \in Sessions, id \in DOMAIN itins, email \in Emails :
       calls' = [calls EXCEPT ![w] =
         IF u = NoSession THEN Call("ADD", u, id, email, "done", <<>>, Unauthorized)
         ELSE IF email = ""
              THEN Call("ADD", u, id, email, "done", <<>>, Message(400, "Please provide an email"))
         ELSE IF ~FoundOwned(itins, id, u)
              THEN Call("ADD", u, id, email, "done", <<>>, NotFoundOrNoPermission)
         ELSE Call("ADD", u, id, email, "read", <<itins[id]>>, NoResponse)]
  /\ UNCHANGED <<itins, nextId, req, resp, users>>

\* DELETE collaborate, to the end of findOne
BeginRemove(w) ==
  /\ calls[w].pc = "idle"
  /\ \E u \in Sessions, id \in DOMAIN itins, collaboratorId \in CollaboratorIds :
       calls' = [calls EXCEPT ![w] =
         IF u = NoSession THEN Call("REMOVE", u, id, collaboratorId, "done", <<>>, Unauthorized)
         ELSE IF collaboratorId = ""
              THEN Call("REMOVE", u, id, collaboratorId, "done", <<>>,
                        Message(400, "Please provide a collaborator ID"))
         ELSE IF ~FoundOwned(itins, id, u)
              THEN Call("REMOVE", u, id, collaboratorId, "done", <<>>, NotFoundOrNoPermission)
         ELSE Call("REMOVE", u, id, collaboratorId, "read", <<itins[id]>>, NoResponse)]
  /\ UNCHANGED <<itins, nextId, req, resp, users>>

\* save() finds no document to write: the itinerary has been deleted
DocumentNotFound == Message(500, "No document found for query")

\* the error of a save() whose write matches no document
SaveError(read) == IF read.versionKey THEN VersionError ELSE DocumentNotFound

\* POST collaborate, from User.findOne to the end of save()
WriteAdd(w) ==
  /\ calls[w].op = "ADD"
  /\ calls[w].pc = "read"
  /\ LET read == calls[w].read[1]
         collaborator == FindUserByEmail(calls[w].arg)
     IN  IF collaborator = <<>>
         THEN Finished(w, Message(404, "User not found")) /\ itins' = itins
         ELSE IF collaborator[1] = read.userId
              THEN /\ Finished(w, Message(400, "You cannot add yourself as a collaborator"))
                   /\ itins' = itins
         ELSE IF Contains(read.collaborators, collaborator[1])
              THEN /\ Finished(w, Message(400, "User is already a collaborator"))
                   /\ itins' = itins
         ELSE IF calls[w].id \notin DOMAIN itins
              THEN itins' = itins /\ Finished(w, SaveError(read))
         ELSE /\ itins' = With(itins, calls[w].id, SavePush(itins[calls[w].id], read, collaborator[1]))
              /\ calls' = [calls EXCEPT ![w].pc = "saved"]
  /\ UNCHANGED <<nextId, req, resp, users>>

\* DELETE collaborate, from the filter to the end of save(); an array equal
\* to the one read is no change, and save() writes nothing
WriteRemove(w) ==
  /\ calls[w].op = "REMOVE"
  /\ calls[w].pc = "read"
  /\ LET read == calls[w].read[1]
         value == FilterOut(read.collaborators, calls[w].arg)
     IN  IF value = read.collaborators
         THEN itins' = itins /\ calls' = [calls EXCEPT ![w].pc = "saved"]
         ELSE IF calls[w].id \notin DOMAIN itins
              THEN itins' = itins /\ Finished(w, SaveError(read))
         ELSE LET saved == SaveSet(itins[calls[w].id], read, value)
              IN  IF saved = <<>>
                  THEN itins' = itins /\ Finished(w, VersionError)
                  ELSE /\ itins' = With(itins, calls[w].id, saved[1])
                       /\ calls' = [calls EXCEPT ![w].pc = "saved"]
  /\ UNCHANGED <<nextId, req, resp, users>>

\* findById, populate and the 200 response: the record, or null when no
\* document has the id any more
Answer(w) ==
  /\ calls[w].pc = "saved"
  /\ Finished(w, IF calls[w].id \in DOMAIN itins
                 THEN Data(200, Populate(calls[w].id, itins[calls[w].id]))
                 ELSE DataNull(200))
  /\ UNCHANGED <<itins, nextId, req, resp, users>>

NextRace ==
  \E w \in Workers :
    \/ BeginAdd(w)
    \/ BeginRemove(w)
    \/ WriteAdd(w)
    \/ WriteRemove(w)
    \/ Answer(w)

SpecRace == InitRace /\ [][NextRace]_vars

(***************************************************************************)
(* The handlers of the by-id endpoint side by side with the collaborate    *)
(* handlers: PUT and DELETE look the itinerary up with the filter of the   *)
(* requester and then write by id alone.                                   *)
(***************************************************************************)
\* req.body of the PUT requests
RaceBodies ==
  {[EmptyBody EXCEPT !.isPublic = <<TRUE>>], [EmptyBody EXCEPT !.collaborators = <<<<"u3">>>>]}

\* findByIdAndUpdate(id, body) on the stored document
UpdateFields(it, body) ==
  [it EXCEPT !.userId = ApplyUpdate(it, body).userId,
             !.collaborators = ApplyUpdate(it, body).collaborators,
             !.isPublic = ApplyUpdate(it, body).isPublic]

\* PUT, to the end of findOne
BeginPut(w) ==
  /\ calls[w].pc = "idle"
  /\ \E u \in Sessions, id \in DOMAIN itins, body \in RaceBodies :
       calls' = [calls EXCEPT ![w] =
         IF u = NoSession THEN Call("PUT", u, id, body, "done", <<>>, Unauthorized)
         ELSE IF ~FoundMutate(itins, id, u)
              THEN Call("PUT", u, id, body, "done", <<>>, NotFoundOrNoPermission)
         ELSE Call("PUT", u, id, body, "read", <<itins[id]>>, NoResponse)]
  /\ UNCHANGED <<itins, nextId, req, resp, users>>

\* PUT, findByIdAndUpdate with populate and the 200 response: the updated
\* record, or null when no document has the id any more
WritePut(w) ==
  /\ calls[w].op = "PUT"
  /\ calls[w].pc = "read"
  /\ IF calls[w].id \in DOMAIN itins
     THEN LET updated == UpdateFields(itins[calls[w].id], calls[w].arg)
          IN  /\ itins' = With(itins, calls[w].id, updated)
              /\ Finished(w, Data(200, Populate(calls[w].id, updated)))
     ELSE itins' = itins /\ Finished(w, DataNull(200))
  /\ UNCHANGED <<nextId, req, resp, users>>

\* DELETE, to the end of findOne
BeginDelete(w) ==
  /\ calls[w].pc = "idle"
  /\ \E u \in Sessions, id \in DOMAIN itins :
       calls' = [calls EXCEPT ![w] =
         IF u = NoSession THEN Call("DELETE", u, id, "", "done", <<>>, Unauthorized)
         ELSE IF ~FoundOwned(itins, id, u)
              THEN Call("DELETE", u, id, "", "done", <<>>, NotFoundOrNoPermission)
         ELSE Call("DELETE", u, id, "", "read", <<itins[id]>>, NoResponse)]
  /\ UNCHANGED <<itins, nextId, req, resp, users>>

\* DELETE, findByIdAndDelete and the 200 response
WriteDelete(w) ==
  /\ calls[w].op = "DELETE"
  /\ calls[w].pc = "read"
  /\ itins' = Without(itins, calls[w].id)
  /\ Finished(w, SuccessMessage(200, "Itinerary deleted successfully"))
  /\ UNCHANGED <<nextId, req, resp, users>>

NextShared ==
  \E w \in Workers :
    \/ BeginAdd(w)
    \/ BeginRemove(w)
    \/ BeginPut(w)
    \/ BeginDelete(w)
    \/ WriteAdd(w)
    \/ WriteRemove(w)
    \/ WritePut(w)
    \/ WriteDelete(w)
    \/ Answer(w)

SpecShared == InitRace /\ [][NextShared]_vars

(***************************************************************************)
(* Properties.  A step that ends a request leaves the request in req' and  *)
(* its response in resp'; itins is the store the handler started from and  *)
(* itins' the store it left.                                               *)
(***************************************************************************)
CollabSet(it) == {it.collaborators[i] : i \in 1..Len(it.collaborators)}

IsOwner(s, id, u) == id \in DOMAIN s /\ s[id].userId = u

IsCollaborator(s, id, u) == id \in DOMAIN s /\ u \in CollabSet(s[id])

\* the step ends a request of kind op made with a session
Ends(op) == req = NoRequest /\ req'.op = op /\ req'.user # NoSession

\* C1: the collaborator set of an existing itinerary changes only by a request
\* of that itinerary's owner.
C1_CollaboratorsChangeOnlyByOwner ==
  [][\A id \in DOMAIN itins \cap DOMAIN itins' :
       itins'[id].collaborators # itins[id].collaborators => req'.user = itins[id].userId]_vars

\* C2: no stored itinerary's collaborator set holds a duplicate or the owner.
C2_CollaboratorsAreASetWithoutOwner ==
  \A id \in DOMAIN itins :
    /\ Cardinality(CollabSet(itins[id])) = Len(itins[id].collaborators)
    /\ itins[id].userId \notin CollabSet(itins[id])

\* C3: the stored userId of an itinerary never changes after creation.
C3_OwnerImmutable ==
  [][\A id \in DOMAIN itins \cap DOMAIN itins' : itins'[id].userId = itins[id].userId]_vars

\* C4: a DELETE by id removes the itinerary exactly when the requester owns
\* it; any other requester gets the 404 and the store is unchanged.
C4_DeleteOwnerOnly ==
  [][Ends("DELETE") =>
       IF IsOwner(itins, req'.id, req'.user)
       THEN /\ resp'.status = 200
            /\ DOMAIN itins' = (DOMAIN itins) \ {req'.id}
            /\ \A i \in DOMAIN itins' : itins'[i] = itins[i]
       ELSE /\ resp' = Message(404, "Itinerary not found or you do not have permission")
            /\ itins' = itins]_vars

\* a collaborator who is not the owner was refused a delete; the itinerary is still stored
C4_Witness ==
  /\ req.op = "DELETE"
  /\ resp.status = 404
  /\ IsCollaborator(itins, req.id, req.user)
  /\ ~IsOwner(itins, req.id, req.user)

\* C5: a PUT by id is applied exactly when the requester is the owner or in
\* the collaborator set; otherwise it is answered 404 and the store is
\* unchanged, public or not.
C5_MutateOwnerOrCollaborator ==
  [][Ends("PUT") =>
       IF IsOwner(itins, req'.id, req'.user) \/ IsCollaborator(itins, req'.id, req'.user)
       THEN resp'.status = 200 /\ resp'.kind = "record"
       ELSE /\ resp' = Message(404, "Itinerary not found or you do not have permission")
            /\ itins' = itins]_vars

\* a stranger was refused an update of a public itinerary
C5_Witness ==
  /\ req.op = "PUT"
  /\ resp.status = 404
  /\ req.id \in DOMAIN itins
  /\ itins[req.id].isPublic
  /\ ~IsOwner(itins, req.id, req.user)
  /\ ~IsCollaborator(itins, req.id, req.user)

\* C6: a GET by id answers 200 with the record exactly when the requester is
\* the owner, a collaborator, or the itinerary is public; otherwise 404.
C6_ReadOwnerCollaboratorOrPublic ==
  (req.op = "GET" /\ req.user # NoSession) =>
     IF \/ IsOwner(itins, req.id, req.user)
        \/ IsCollaborator(itins, req.id, req.user)
        \/ (req.id \in DOMAIN itins /\ itins[req.id].isPublic)
     THEN /\ resp.status = 200
          /\ resp.kind = "record"
          /\ resp.data[1]._id = req.id
          /\ resp.data[1].userId._id = itins[req.id].userId
          /\ resp.data[1].isPublic = itins[req.id].isPublic
          /\ Len(resp.data[1].collaborators) = Len(itins[req.id].collaborators)
          /\ \A i \in 1..Len(itins[req.id].collaborators) :
               resp.data[1].collaborators[i]._id = itins[req.id].collaborators[i]
     ELSE resp.status = 404 /\ resp.kind = "none"

\* a stranger read a public itinerary
C6_Witness ==
  /\ req.op = "GET"
  /\ resp.status = 200
  /\ itins[req.id].isPublic
  /\ ~IsOwner(itins, req.id, req.user)
  /\ ~IsCollaborator(itins, req.id, req.user)

\* the identifiers of the records a list response carries
ListedIds == {resp.data[i]._id : i \in 1..Len(resp.data)}

\* C7: the list holds exactly the itineraries the requester owns or
\* collaborates on, each once; a public itinerary of somebody else, not
\* shared with the requester, is readable by id yet not listed.
C7_ListOwnedOrCollaborated ==
  (req.op = "LIST" /\ req.user # NoSession) =>
     /\ resp.status = 200
     /\ resp.kind = "list"
     /\ ListedIds = {id \in DOMAIN itins :
                       IsOwner(itins, id, req.user) \/ IsCollaborator(itins, id, req.user)}
     /\ Len(resp.data) = Cardinality(ListedIds)
     /\ \A id \in DOMAIN itins :
          (/\ itins[id].isPublic
           /\ ~IsOwner(itins, id, req.user)
           /\ ~IsCollaborator(itins, id, req.user))
          => id \notin ListedIds /\ GetOutcome(itins, req.user, id).resp.status = 200

\* a stranger listed while a public itinerary of somebody else was stored
C7_Witness ==
  /\ req.op = "LIST"
  /\ resp.status = 200
  /\ \E id \in DOMAIN itins :
       /\ itins[id].isPublic
       /\ ~IsOwner(itins, id, req.user)
       /\ ~IsCollaborator(itins, id, req.user)
       /\ id \notin ListedIds

\* the requester u may do op on the itinerary id of store s
Authorized(op, s, id, u) ==
  IF op = "GET" THEN IsOwner(s, id, u) \/ IsCollaborator(s, id, u) \/ s[id].isPublic
  ELSE IF op = "PUT" THEN IsOwner(s, id, u) \/ IsCollaborator(s, id, u)
  ELSE IsOwner(s, id, u)

\* the responses the request r can get from the store s
ResponsesOn(s, r) ==
  IF r.op = "GET" THEN {GetOutcome(s, r.user, r.id).resp}
  ELSE IF r.op = "PUT" THEN {PutOutcome(s, r.user, r.id, b).resp : b \in Bodies}
  ELSE IF r.op = "DELETE" THEN {DeleteOutcome(s, r.user, r.id).resp}
  ELSE IF r.op = "ADD" THEN {AddOutcome(s, r.user, r.id, r.arg).resp}
  ELSE {RemoveOutcome(s, r.user, r.id, r.arg).resp}

\* C8: a requester who is not authorized for an existing itinerary gets, for
\* read, update, delete, add collaborator and remove collaborator, the very
\* response the same request gets when no itinerary has that id.
C8_ForbiddenLooksLikeNotFound ==
  [][(/\ req = NoRequest
      /\ req'.op \in {"GET", "PUT", "DELETE", "ADD", "REMOVE"}
      /\ req'.user # NoSession
      /\ req'.id \in DOMAIN itins
      /\ ~Authorized(req'.op, itins, req'.id, req'.user))
     => ResponsesOn(Without(itins, req'.id), req') = {resp'}]_vars

\* a user who does not own a private itinerary asked to add a collaborator to it
C8_Witness ==
  /\ req.op = "ADD"
  /\ req.arg # ""
  /\ req.user # NoSession
  /\ req.id \in DOMAIN itins
  /\ ~itins[req.id].isPublic
  /\ ~IsOwner(itins, req.id, req.user)
  /\ resp.status = 404

\* C9: an itinerary is created with no collaborators and isPublic = false, by
\* generation and by manual creation, whatever the body carries.
C9_CreatedPrivateAndUnshared ==
  (req.op \in {"CREATE", "GENERATE"} /\ resp.status = 201) =>
     /\ itins[req.id].collaborators = <<>>
     /\ itins[req.id].isPublic = FALSE

\* the registered users whose email is e
Registered(e) == {u \in Users : EmailOf[u] = e}

Occurrences(seq, x) == Cardinality({i \in 1..Len(seq) : seq[i] = x})

\* C11: when the owner adds the same email twice in a row, the first add
\* succeeds, the second fails with 'already present' and leaves the
\* collaborator set as the first left it, with that user in it exactly once.
C11_SecondAddIsRefused ==
  \A id \in DOMAIN itins, e \in Emails :
    LET owner == itins[id].userId
        first == AddOutcome(itins, owner, id, e)
        second == AddOutcome(first.store, owner, id, e)
    IN  first.resp.status = 200 =>
          /\ second.resp = Message(400, "User is already a collaborator")
          /\ second.store = first.store
          /\ Len(second.store[id].collaborators) = Len(itins[id].collaborators) + 1
          /\ \A u \in Registered(e) : Occurrences(second.store[id].collaborators, u) = 1

\* the owner added an email a second time: refused, and the user is there once
C11_Witness ==
  /\ req.op = "ADD"
  /\ IsOwner(itins, req.id, req.user)
  /\ resp = Message(400, "User is already a collaborator")
  /\ \A u \in Registered(req.arg) : Occurrences(itins[req.id].collaborators, u) = 1

\* seq without its entries equal to x
Except(seq, x) == SelectSeq(seq, LAMBDA y : y # x)

\* C12: a remove by the owner answers 200 and leaves the collaborator set as
\* it was less every entry equal to the identifier; for an identifier that
\* is no member, nothing changes.
C12_RemoveFilters ==
  [][(Ends("REMOVE") /\ req'.arg # "" /\ IsOwner(itins, req'.id, req'.user)) =>
       /\ resp'.status = 200
       /\ resp'.hasSuccess
       /\ itins' = [itins EXCEPT ![req'.id].collaborators = Except(@, req'.arg)]
       /\ resp'.data = <<Populate(req'.id, itins'[req'.id])>>
       /\ (req'.arg \notin CollabSet(itins[req'.id]) => itins' = itins)]_vars

\* the owner removed somebody who was no collaborator of a shared itinerary
C12_Witness ==
  /\ req.op = "REMOVE"
  /\ resp.status = 200
  /\ IsOwner(itins, req.id, req.user)
  /\ req.arg \notin CollabSet(itins[req.id])
  /\ itins[req.id].collaborators # <<>>

\* the parse of the text of request r, and whether r gets as far as the parse
Parsed(r) == ParseItinerary(r.arg.generation.text)

ReachesParse(r) ==
  /\ r.op = "GENERATE"
  /\ r.user # NoSession
  /\ r.arg.params \in CompleteParams
  /\ r.arg.connected
  /\ r.arg.generation.ok

\* the text of a payload inside a json fence
Fenced(p) == <<FenceJson, Newline>> \o ObjectText(p) \o <<Newline, Fence>>

\* C13: the itinerary persisted from an accepted payload has totalDays equal
\* to the length of the payload's days array.
C13_TotalDaysIsDaysCount ==
  (ReachesParse(req) /\ resp.status = 201) =>
    /\ resp.data[1].totalDays = Len(Parsed(req).value.days.items)
    /\ itins[resp.data[1]._id].totalDays = Len(Parsed(req).value.days.items)

\* C14: a parsed payload with an empty days array is rejected with an error
\* other than the one for a days member that is missing or not an array, and
\* neither request changes the store.
C14_EmptyDaysDistinctFromMissing ==
  [][(Idle /\ ReachesParse(req') /\ Parsed(req').ok /\ Len(Parsed(req').value.days.items) = 0) =>
       /\ itins' = itins
       /\ resp'.status = 500
       /\ resp'.message # ""
       /\ (Parsed(req').value.days.is = "array") =
            (resp'.message = "Invalid itinerary data: No days generated")
       /\ (Parsed(req').value.days.is # "array") =
            (resp'.message = "Invalid itinerary data: Missing days array")]_vars

\* a payload whose days array is empty has been rejected
C14_Witness ==
  /\ ReachesParse(req)
  /\ Parsed(req).ok
  /\ Parsed(req).value.days = [is |-> "array", items |-> <<>>]
  /\ resp = Message(500, "Invalid itinerary data: No days generated")

\* C15: the text of a payload inside a fence is answered as the bare text of
\* the same payload is, with the same request parameters and the same store.
C15_FencedSameAsUnwrapped ==
  [][\A p \in Payloads :
       (Idle /\ ReachesParse(req') /\ req'.arg.generation.text = Fenced(p)) =>
         LET bare == GenerateOutcome(itins, nextId, req'.user, req'.arg.params, TRUE,
                                     [ok |-> TRUE, text |-> ObjectText(p)])
         IN  /\ Parsed(req').ok
             /\ resp' = bare.resp
             /\ itins' = bare.store]_vars

\* C16: a generate request that is answered 201 stores exactly one new
\* itinerary and leaves the others alone; one that is answered otherwise
\* leaves the store as it was.
C16_NoPartialPersistence ==
  [][(Idle /\ req'.op \in {"GENERATE", "OTHER_GENERATE"}) =>
       IF resp'.status = 201
       THEN /\ DOMAIN itins' = DOMAIN itins \cup {resp'.data[1]._id}
            /\ resp'.data[1]._id \notin DOMAIN itins
            /\ \A id \in DOMAIN itins : itins'[id] = itins[id]
            /\ itins'[resp'.data[1]._id].userId = req'.user
       ELSE itins' = itins]_vars

\* a generation has been stored, answered 201
C16_Witness ==
  /\ ReachesParse(req)
  /\ resp.status = 201
  /\ Cardinality(DOMAIN itins) = 1
  /\ itins[resp.data[1]._id].days = Parsed(req).value.days.items

\* a response whose body has what the page shows: a data payload or a message
HasDataOrMessage(r) == r.kind # "none" \/ r.message # ""

\* C17: every response, success or failure, carries a success flag with a
\* data payload or a message.
C17_EveryResponseHasSuccessFlag ==
  ~Idle => (resp.hasSuccess /\ HasDataOrMessage(resp))

\* C17, as the handlers answer: a 2xx response carries the success flag with
\* a data payload or a message; every other response carries a message and
\* neither a success flag nor data.
C17_SuccessFlagOnSuccessOnly ==
  ~Idle =>
    IF resp.status \in 200..299
    THEN resp.hasSuccess /\ HasDataOrMessage(resp)
    ELSE ~resp.hasSuccess /\ resp.message # "" /\ resp.kind = "none"

\* a request with a session has been refused
C17_Witness ==
  /\ req.op = "GET"
  /\ req.user # NoSession
  /\ resp.status = 404
  /\ ~resp.hasSuccess
  /\ resp.message = "Itinerary not found"

\* C18: the detail page's owner check and collaborator check are true for
\* the owner and for a collaborator when the record of the GET response
\* carries them as expanded records.
C18_DetailChecksFormIndependent ==
  (req.op = "GET" /\ resp.status = 200) =>
    /\ IsOwner(itins, req.id, req.user) => DetailIsOwner(req.user, resp.data[1])
    /\ IsCollaborator(itins, req.id, req.user) => DetailIsCollaborator(req.user, resp.data[1])

\* the step is one of the save of the user document that w holds
SaveStep(w) == calls[w].op = "SAVE" /\ calls'[w].op = "SAVE" /\ calls'[w].user = calls[w].user

\* C19: the hash is computed at save time exactly when the password has been
\* modified: a save of a document with the password unmodified computes no
\* hash, and the stored password stays as it was.
C19_HashOnlyWhenModified ==
  [][\A w \in Workers :
       SaveStep(w) =>
         /\ (calls[w].pc = "loaded" /\ calls'[w].pc # "loaded") =>
              (calls'[w].pc = "hook") = calls[w].read[1].modified
         /\ (calls'[w].read[1].password.hashes > calls[w].read[1].password.hashes) =>
              calls[w].pc = "hook"
         /\ calls[w].pc # "hook" => users' = users]_vars

\* the step is the write step of the invocation of w, which passed the checks
\* of its handler
Writes(w) == calls[w].pc = "read" /\ calls'[w].pc = "saved"

WriteStep(w) == calls[w].pc = "read" /\ calls'[w].pc # "read"

\* the stored document has been written since w read it
Raced(w) == itins[calls[w].id] # calls[w].read[1]

\* the collaborators array that w computes from the document it read
Computed(w) ==
  IF calls[w].op = "ADD"
  THEN Append(calls[w].read[1].collaborators, FindUserByEmail(calls[w].arg)[1])
  ELSE FilterOut(calls[w].read[1].collaborators, calls[w].arg)

\* the checks of the handler of w pass on the document it read
Accepted(w) ==
  calls[w].op = "ADD" =>
    /\ FindUserByEmail(calls[w].arg) # <<>>
    /\ FindUserByEmail(calls[w].arg)[1] # calls[w].read[1].userId
    /\ ~Contains(calls[w].read[1].collaborators, FindUserByEmail(calls[w].arg)[1])

C21_TotalDaysPositive ==
  /\ \A id \in DOMAIN itins : itins[id].totalDays >= 1
  /\ (ReachesParse(req) /\ resp.status = 201) => resp.data[1].totalDays >= 1

\* the text of a payload followed by text that holds one more closing brace
TrailingCloser(p) == ObjectText(p) \o <<Prose, RBrace>>

\* C22: the text of an object followed by text with a further closing brace
\* is accepted, with the object as the payload.
C22_FirstBalancedSpanParsed ==
  LET text == req.arg.generation.text
  IN  (ReachesParse(req) /\ Len(text) > 1 /\ text = TrailingCloser(text[2].members)) =>
        /\ Parsed(req).ok
        /\ Parsed(req).value = text[2].members
        /\ resp.status = 201

\* C23: when no parse stage succeeds, the message of the failure holds the
\* diagnostic of the first parse and a preview of the text received.
C23_ParseErrorEmbedsPreview ==
  (ReachesParse(req) /\ ~Parsed(req).ok) =>
    /\ resp.status = 500
    /\ resp.message = Join(Parsed(req).parts) \o " The AI response was invalid. Please try again."
    /\ Contains(Parsed(req).parts, Diagnostic)
    /\ Contains(Parsed(req).parts, Preview(req.arg.generation.text))

\* the values the request gives for the members a payload omits
Fallback(params) ==
  [destination |-> params.destination,
   totalDays |-> IF ParseInt(params.days) = <<>> THEN 0 ELSE ParseInt(params.days)[1],
   budget |-> params.budget,
   interests |-> IF params.interests = <<>> THEN <<>> ELSE params.interests[1],
   summary |-> "summary from the budget"]

\* C24: the itinerary persisted has, for destination, totalDays, budget,
\* interests and summary, the value of the payload when the payload has the
\* member and the value of the request only when it has not; its days are
\* the days of the payload.
C24_BackfillOnlyOmitted ==
  (ReachesParse(req) /\ resp.status = 201) =>
    LET p == Parsed(req).value
        f == Fallback(req.arg.params)
        it == itins[resp.data[1]._id]
    IN  /\ it.destination = IF p.top.destination # <<>> THEN p.top.destination[1] ELSE f.destination
        /\ it.totalDays = IF p.totalDays # <<>> THEN p.totalDays[1] ELSE f.totalDays
        /\ it.budget = IF p.top.budget # <<>> THEN p.top.budget[1] ELSE f.budget
        /\ it.interests = IF p.top.interests # <<>> THEN p.top.interests[1] ELSE f.interests
        /\ it.summary = IF p.top.summary # <<>> THEN p.top.summary[1] ELSE f.summary
        /\ it.days = p.days.items

\* C24, as the handler fills the document: the value of the payload when the
\* payload has the member and it is not 0 and not the empty string, the value
\* of the request otherwise; the days are the days of the payload.
C24_BackfillOmittedOrFalsy ==
  (ReachesParse(req) /\ resp.status = 201) =>
    LET p == Parsed(req).value
        f == Fallback(req.arg.params)
        it == itins[resp.data[1]._id]
    IN  /\ it.destination = IF p.top.destination \notin {<<>>, <<"">>} THEN p.top.destination[1]
                            ELSE f.destination
        /\ it.totalDays = IF p.totalDays \notin {<<>>, <<0>>} THEN p.totalDays[1] ELSE f.totalDays
        /\ it.budget = IF p.top.budget \notin {<<>>, <<"">>} THEN p.top.budget[1] ELSE f.budget
        /\ it.interests = IF p.top.interests # <<>> THEN p.top.interests[1] ELSE f.interests
        /\ it.summary = IF p.top.summary # <<>> THEN p.top.summary[1] ELSE f.summary
        /\ it.days = p.days.items
        /\ resp.data[1].destination = it.destination

\* a payload with an empty destination and totalDays 0 has been persisted
\* with the destination and the day count of the request
C24_Witness ==
  /\ ReachesParse(req)
  /\ resp.status = 201
  /\ Parsed(req).value.top.destination = <<"">>
  /\ Parsed(req).value.totalDays = <<0>>
  /\ itins[resp.data[1]._id].destination = req.arg.params.destination
  /\ itins[resp.data[1]._id].totalDays = 2

\* the step is the write of the PUT that w handles
PutWrites(w) == calls[w].op = "PUT" /\ calls[w].pc = "read" /\ calls'[w].pc = "done"

\* C25: a PUT changes the stored itinerary only when its requester is the
\* owner or a collaborator at the moment of the write.
C25_UpdateWrittenOnlyWithAccess ==
  [][\A w \in Workers :
       (PutWrites(w) /\ itins' # itins) => FoundMutate(itins, calls[w].id, calls[w].user)]_vars

\* C26: whatever the interleaving of the add and remove requests, no user is
\* twice in the collaborators of a stored itinerary.
C26_NoDuplicateUnderConcurrentAdds ==
  \A id \in DOMAIN itins, u \in Users : Occurrences(itins[id].collaborators, u) <= 1

\* C27: whatever the interleaving with a delete, a 200 response of a PUT,
\* an add or a remove carries the record, and no step brings back an
\* itinerary that has been deleted.
C27_RecordInEvery200AndNoRecreation ==
  [][/\ \A w \in Workers :
          (calls'[w].op \in {"PUT", "ADD", "REMOVE"} /\ calls'[w].resp.status = 200) =>
            calls'[w].resp.kind = "record"
     /\ DOMAIN itins' \subseteq DOMAIN itins]_vars

\* C28: the owner of an itinerary just created, by manual creation or by
\* generation, is the user of the session, whatever userId the body carries.
C28_OwnerIsRequester ==
  (req.op \in {"CREATE", "GENERATE"} /\ resp.status = 201) =>
    /\ itins[req.id].userId = req.user
    /\ resp.data[1].userId = req.user
    /\ req.op = "CREATE" =>
         \E body \in Bodies : /\ body.userId \notin {<<>>, <<req.user>>}
                              /\ Document(req.id, ManualDocument(req.user, body)) = resp.data[1]

\* a manual creation has been answered 201
C28_Witness ==
  /\ req.op = "CREATE"
  /\ resp.status = 201
  /\ itins[req.id].userId = req.user
  /\ itins[req.id].collaborators # <<>>

UpperCase == "ABCDEFGHIJKLMNOPQRSTUVWXYZ"

LowerCase == "abcdefghijklmnopqrstuvwxyz"

Char(text, i) == SubSeq(text, i, i)

\* String.prototype.toLowerCase, on the letters A to Z
RECURSIVE ToLowerCase(_)
ToLowerCase(text) ==
  IF text = "" THEN ""
  ELSE LET c == Char(text, 1)
           at == {i \in 1..Len(UpperCase) : Char(UpperCase, i) = c}
       IN (IF at = {} THEN c ELSE Char(LowerCase, CHOOSE i \in at : TRUE))
            \o ToLowerCase(SubSeq(text, 2, Len(text)))

\* String.prototype.trim, on spaces
RECURSIVE TrimString(_)
TrimString(text) ==
  IF text = "" THEN ""
  ELSE IF Char(text, 1) = " " THEN TrimString(SubSeq(text, 2, Len(text)))
  ELSE IF Char(text, Len(text)) = " " THEN TrimString(SubSeq(text, 1, Len(text) - 1))
  ELSE text

\* text.includes(key)
Includes(text, key) ==
  \E i \in 1..(Len(text) - Len(key) + 1) : SubSeq(text, i, i + Len(key) - 1) = key

\* text.split(',')[0]
BeforeComma(text) ==
  LET commas == {i \in 1..Len(text) : Char(text, i) = ","}
  IN IF commas = {} THEN text
     ELSE SubSeq(text, 1, (CHOOSE i \in commas : \A j \in commas : i <= j) - 1)

\* destination.toLowerCase().trim()
DestLower(destination) == TrimString(ToLowerCase(destination))

\* destLower.split(',')[0].trim()
CityName(destination) == TrimString(BeforeComma(DestLower(destination)))

\* the four maps of getDestinationInfo, which list the same keys in the same
\* order: one row per key; a currency is written without the signs that
\* are not ASCII characters
DestinationTable == <<
  [key |-> "paris", currency |-> "EUR ()", language |-> "French",
   timezone |-> "CET (UTC+1)", bestTime |-> "Apr-Jun, Sep-Oct"],
  [key |-> "france", currency |-> "EUR ()", language |-> "French",
   timezone |-> "CET (UTC+1)", bestTime |-> "Apr-Jun, Sep-Oct"],
  [key |-> "lyon", currency |-> "EUR ()", language |-> "French",
   timezone |-> "CET (UTC+1)", bestTime |-> "Apr-Jun, Sep-Oct"],
  [key |-> "marseille", currency |-> "EUR ()", language |-> "French",
   timezone |-> "CET (UTC+1)", bestTime |-> "Apr-Jun, Sep-Oct"],
  [key |-> "london", currency |-> "GBP ()", language |-> "English",
   timezone |-> "GMT (UTC+0)", bestTime |-> "May-Sep"],
  [key |-> "uk", currency |-> "GBP ()", language |-> "English",
   timezone |-> "GMT (UTC+0)", bestTime |-> "May-Sep"],
  [key |-> "united kingdom", currency |-> "GBP ()", language |-> "English",
   timezone |-> "GMT (UTC+0)", bestTime |-> "May-Sep"],
  [key |-> "britain", currency |-> "GBP ()", language |-> "English",
   timezone |-> "GMT (UTC+0)", bestTime |-> "May-Sep"],
  [key |-> "rome", currency |-> "EUR ()", language |-> "Italian",
   timezone |-> "CET (UTC+1)", bestTime |-> "Apr-Jun, Sep-Oct"],
  [key |-> "italy", currency |-> "EUR ()", language |-> "Italian",
   timezone |-> "CET (UTC+1)", bestTime |-> "Apr-Jun, Sep-Oct"],
  [key |-> "milan", currency |-> "EUR ()", language |-> "Italian",
   timezone |-> "CET (UTC+1)", bestTime |-> "Apr-Jun, Sep-Oct"],
  [key |-> "venice", currency |-> "EUR ()", language |-> "Italian",
   timezone |-> "CET (UTC+1)", bestTime |-> "Apr-Jun, Sep-Oct"],
  [key |-> "madrid", currency |-> "EUR ()", language |-> "Spanish",
   timezone |-> "CET (UTC+1)", bestTime |-> "Mar-May, Sep-Nov"],
  [key |-> "spain", currency |-> "EUR ()", language |-> "Spanish",
   timezone |-> "CET (UTC+1)", bestTime |-> "Mar-May, Sep-Nov"],
  [key |-> "barcelona", currency |-> "EUR ()", language |-> "Spanish, Catalan",
   timezone |-> "CET (UTC+1)", bestTime |-> "May-Jun, Sep-Oct"],
  [key |-> "berlin", currency |-> "EUR ()", language |-> "German",
   timezone |-> "CET (UTC+1)", bestTime |-> "May-Sep"],
  [key |-> "germany", currency |-> "EUR ()", language |-> "German",
   timezone |-> "CET (UTC+1)", bestTime |-> "May-Sep"],
  [key |-> "munich", currency |-> "EUR ()", language |-> "German",
   timezone |-> "CET (UTC+1)", bestTime |-> "May-Sep"],
  [key |-> "amsterdam", currency |-> "EUR ()", language |-> "Dutch",
   timezone |-> "CET (UTC+1)", bestTime |-> "Apr-Jun, Sep-Oct"],
  [key |-> "netherlands", currency |-> "EUR ()", language |-> "Dutch",
   timezone |-> "CET (UTC+1)", bestTime |-> "Apr-Jun, Sep-Oct"],
  [key |-> "vienna", currency |-> "EUR ()", language |-> "German",
   timezone |-> "CET (UTC+1)", bestTime |-> "Apr-Jun, Sep-Oct"],
  [key |-> "austria", currency |-> "EUR ()", language |-> "German",
   timezone |-> "CET (UTC+1)", bestTime |-> "Apr-Jun, Sep-Oct"],
  [key |-> "prague", currency |-> "CZK (K)", language |-> "Czech",
   timezone |-> "CET (UTC+1)", bestTime |-> "May-Sep"],
  [key |-> "czech", currency |-> "CZK (K)", language |-> "Czech",
   timezone |-> "CET (UTC+1)", bestTime |-> "May-Sep"],
  [key |-> "budapest", currency |-> "HUF (Ft)", language |-> "Hungarian",
   timezone |-> "CET (UTC+1)", bestTime |-> "Apr-Jun, Sep-Oct"],
  [key |-> "hungary", currency |-> "HUF (Ft)", language |-> "Hungarian",
   timezone |-> "CET (UTC+1)", bestTime |-> "Apr-Jun, Sep-Oct"],
  [key |-> "athens", currency |-> "EUR ()", language |-> "Greek",
   timezone |-> "EET (UTC+2)", bestTime |-> "Apr-Jun, Sep-Oct"],
  [key |-> "greece", currency |-> "EUR ()", language |-> "Greek",
   timezone |-> "EET (UTC+2)", bestTime |-> "Apr-Jun, Sep-Oct"],
  [key |-> "lisbon", currency |-> "EUR ()", language |-> "Portuguese",
   timezone |-> "WET (UTC+0)", bestTime |-> "Mar-May, Sep-Nov"],
  [key |-> "portugal", currency |-> "EUR ()", language |-> "Portuguese",
   timezone |-> "WET (UTC+0)", bestTime |-> "Mar-May, Sep-Nov"],
  [key |-> "stockholm", currency |-> "SEK (kr)", language |-> "Swedish",
   timezone |-> "CET (UTC+1)", bestTime |-> "Jun-Aug"],
  [key |-> "sweden", currency |-> "SEK (kr)", language |-> "Swedish",
   timezone |-> "CET (UTC+1)", bestTime |-> "Jun-Aug"],
  [key |-> "oslo", currency |-> "NOK (kr)", language |-> "Norwegian",
   timezone |-> "CET (UTC+1)", bestTime |-> "Jun-Aug"],
  [key |-> "norway", currency |-> "NOK (kr)", language |-> "Norwegian",
   timezone |-> "CET (UTC+1)", bestTime |-> "Jun-Aug"],
  [key |-> "copenhagen", currency |-> "DKK (kr)", language |-> "Danish",
   timezone |-> "CET (UTC+1)", bestTime |-> "May-Sep"],
  [key |-> "denmark", currency |-> "DKK (kr)", language |-> "Danish",
   timezone |-> "CET (UTC+1)", bestTime |-> "May-Sep"],
  [key |-> "zurich", currency |-> "CHF", language |-> "German, French, Italian",
   timezone |-> "CET (UTC+1)", bestTime |-> "Jun-Sep"],
  [key |-> "switzerland", currency |-> "CHF", language |-> "German, French, Italian",
   timezone |-> "CET (UTC+1)", bestTime |-> "Jun-Sep"],
  [key |-> "brussels", currency |-> "EUR ()", language |-> "French, Dutch",
   timezone |-> "CET (UTC+1)", bestTime |-> "Apr-Jun, Sep-Oct"],
  [key |-> "belgium", currency |-> "EUR ()", language |-> "French, Dutch",
   timezone |-> "CET (UTC+1)", bestTime |-> "Apr-Jun, Sep-Oct"],
  [key |-> "tokyo", currency |-> "JPY ()", language |-> "Japanese",
   timezone |-> "JST (UTC+9)", bestTime |-> "Mar-May, Sep-Nov"],
  [key |-> "japan", currency |-> "JPY ()", language |-> "Japanese",
   timezone |-> "JST (UTC+9)", bestTime |-> "Mar-May, Sep-Nov"],
  [key |-> "osaka", currency |-> "JPY ()", language |-> "Japanese",
   timezone |-> "JST (UTC+9)", bestTime |-> "Mar-May, Sep-Nov"],
  [key |-> "kyoto", currency |-> "JPY ()", language |-> "Japanese",
   timezone |-> "JST (UTC+9)", bestTime |-> "Mar-May, Sep-Nov"],
  [key |-> "beijing", currency |-> "CNY ()", language |-> "Mandarin",
   timezone |-> "CST (UTC+8)", bestTime |-> "Apr-Jun, Sep-Oct"],
  [key |-> "china", currency |-> "CNY ()", language |-> "Mandarin",
   timezone |-> "CST (UTC+8)", bestTime |-> "Apr-Jun, Sep-Oct"],
  [key |-> "shanghai", currency |-> "CNY ()", language |-> "Mandarin",
   timezone |-> "CST (UTC+8)", bestTime |-> "Apr-Jun, Sep-Oct"],
  [key |-> "mumbai", currency |-> "INR ()", language |-> "Hindi, English",
   timezone |-> "IST (UTC+5:30)", bestTime |-> "Nov-Feb"],
  [key |-> "delhi", currency |-> "INR ()", language |-> "Hindi, English",
   timezone |-> "IST (UTC+5:30)", bestTime |-> "Oct-Mar"],
  [key |-> "india", currency |-> "INR ()", language |-> "Hindi, English",
   timezone |-> "IST (UTC+5:30)", bestTime |-> "Oct-Mar"],
  [key |-> "bangalore", currency |-> "INR ()", language |-> "English, Kannada",
   timezone |-> "IST (UTC+5:30)", bestTime |-> "Oct-Feb"],
  [key |-> "kolkata", currency |-> "INR ()", language |-> "Bengali, English",
   timezone |-> "IST (UTC+5:30)", bestTime |-> "Oct-Mar"],
  [key |-> "singapore", currency |-> "SGD (S$)", language |-> "English, Mandarin, Malay",
   timezone |-> "SGT (UTC+8)", bestTime |-> "Feb-Apr"],
  [key |-> "bangkok", currency |-> "THB ()", language |-> "Thai",
   timezone |-> "ICT (UTC+7)", bestTime |-> "Nov-Mar"],
  [key |-> "thailand", currency |-> "THB ()", language |-> "Thai",
   timezone |-> "ICT (UTC+7)", bestTime |-> "Nov-Mar"],
  [key |-> "kuala lumpur", currency |-> "MYR (RM)", language |-> "Malay, English",
   timezone |-> "MYT (UTC+8)", bestTime |-> "Dec-Feb"],
  [key |-> "malaysia", currency |-> "MYR (RM)", language |-> "Malay, English",
   timezone |-> "MYT (UTC+8)", bestTime |-> "Dec-Feb"],
  [key |-> "jakarta", currency |-> "IDR (Rp)", language |-> "Indonesian",
   timezone |-> "WIB (UTC+7)", bestTime |-> "May-Oct"],
  [key |-> "indonesia", currency |-> "IDR (Rp)", language |-> "Indonesian",
   timezone |-> "WIB (UTC+7)", bestTime |-> "May-Oct"],
  [key |-> "manila", currency |-> "PHP ()", language |-> "Filipino, English",
   timezone |-> "PHT (UTC+8)", bestTime |-> "Nov-Apr"],
  [key |-> "philippines", currency |-> "PHP ()", language |-> "Filipino, English",
   timezone |-> "PHT (UTC+8)", bestTime |-> "Nov-Apr"],
  [key |-> "seoul", currency |-> "KRW ()", language |-> "Korean",
   timezone |-> "KST (UTC+9)", bestTime |-> "Mar-May, Sep-Nov"],
  [key |-> "south korea", currency |-> "KRW ()", language |-> "Korean",
   timezone |-> "KST (UTC+9)", bestTime |-> "Mar-May, Sep-Nov"],
  [key |-> "korea", currency |-> "KRW ()", language |-> "Korean",
   timezone |-> "KST (UTC+9)", bestTime |-> "Mar-May, Sep-Nov"],
  [key |-> "hanoi", currency |-> "VND ()", language |-> "Vietnamese",
   timezone |-> "ICT (UTC+7)", bestTime |-> "Oct-Apr"],
  [key |-> "vietnam", currency |-> "VND ()", language |-> "Vietnamese",
   timezone |-> "ICT (UTC+7)", bestTime |-> "Oct-Apr"],
  [key |-> "ho chi minh", currency |-> "VND ()", language |-> "Vietnamese",
   timezone |-> "ICT (UTC+7)", bestTime |-> "Dec-Apr"],
  [key |-> "hong kong", currency |-> "HKD (HK$)", language |-> "Cantonese, English",
   timezone |-> "HKT (UTC+8)", bestTime |-> "Oct-Apr"],
  [key |-> "taipei", currency |-> "TWD (NT$)", language |-> "Mandarin",
   timezone |-> "CST (UTC+8)", bestTime |-> "Mar-May, Oct-Nov"],
  [key |-> "taiwan", currency |-> "TWD (NT$)", language |-> "Mandarin",
   timezone |-> "CST (UTC+8)", bestTime |-> "Mar-May, Oct-Nov"],
  [key |-> "dubai", currency |-> "AED (.)", language |-> "Arabic, English",
   timezone |-> "GST (UTC+4)", bestTime |-> "Nov-Mar"],
  [key |-> "uae", currency |-> "AED (.)", language |-> "Arabic, English",
   timezone |-> "GST (UTC+4)", bestTime |-> "Nov-Mar"],
  [key |-> "abu dhabi", currency |-> "AED (.)", language |-> "Arabic, English",
   timezone |-> "GST (UTC+4)", bestTime |-> "Nov-Mar"],
  [key |-> "riyadh", currency |-> "SAR ()", language |-> "Arabic",
   timezone |-> "AST (UTC+3)", bestTime |-> "Nov-Mar"],
  [key |-> "saudi arabia", currency |-> "SAR ()", language |-> "Arabic",
   timezone |-> "AST (UTC+3)", bestTime |-> "Nov-Mar"],
  [key |-> "doha", currency |-> "QAR ()", language |-> "Arabic, English",
   timezone |-> "AST (UTC+3)", bestTime |-> "Nov-Mar"],
  [key |-> "qatar", currency |-> "QAR ()", language |-> "Arabic, English",
   timezone |-> "AST (UTC+3)", bestTime |-> "Nov-Mar"],
  [key |-> "tel aviv", currency |-> "ILS ()", language |-> "Hebrew, English",
   timezone |-> "IST (UTC+2)", bestTime |-> "Apr-May, Sep-Nov"],
  [key |-> "israel", currency |-> "ILS ()", language |-> "Hebrew, English",
   timezone |-> "IST (UTC+2)", bestTime |-> "Apr-May, Sep-Nov"],
  [key |-> "istanbul", currency |-> "TRY ()", language |-> "Turkish",
   timezone |-> "TRT (UTC+3)", bestTime |-> "Apr-May, Sep-Oct"],
  [key |-> "turkey", currency |-> "TRY ()", language |-> "Turkish",
   timezone |-> "TRT (UTC+3)", bestTime |-> "Apr-May, Sep-Oct"],
  [key |-> "new york", currency |-> "USD ($)", language |-> "English",
   timezone |-> "EST (UTC-5)", bestTime |-> "Apr-Jun, Sep-Nov"],
  [key |-> "usa", currency |-> "USD ($)", language |-> "English",
   timezone |-> "EST (UTC-5)", bestTime |-> "Apr-Jun, Sep-Nov"],
  [key |-> "united states", currency |-> "USD ($)", language |-> "English",
   timezone |-> "EST (UTC-5)", bestTime |-> "Apr-Jun, Sep-Nov"],
  [key |-> "america", currency |-> "USD ($)", language |-> "English",
   timezone |-> "EST (UTC-5)", bestTime |-> "Apr-Jun, Sep-Nov"],
  [key |-> "los angeles", currency |-> "USD ($)", language |-> "English, Spanish",
   timezone |-> "PST (UTC-8)", bestTime |-> "Mar-May, Sep-Nov"],
  [key |-> "chicago", currency |-> "USD ($)", language |-> "English",
   timezone |-> "CST (UTC-6)", bestTime |-> "May-Jun, Sep-Oct"],
  [key |-> "miami", currency |-> "USD ($)", language |-> "English, Spanish",
   timezone |-> "EST (UTC-5)", bestTime |-> "Dec-Apr"],
  [key |-> "san francisco", currency |-> "USD ($)", language |-> "English",
   timezone |-> "PST (UTC-8)", bestTime |-> "Sep-Nov"],
  [key |-> "toronto", currency |-> "CAD (C$)", language |-> "English, French",
   timezone |-> "EST (UTC-5)", bestTime |-> "May-Oct"],
  [key |-> "canada", currency |-> "CAD (C$)", language |-> "English, French",
   timezone |-> "EST (UTC-5)", bestTime |-> "Jun-Aug"],
  [key |-> "vancouver", currency |-> "CAD (C$)", language |-> "English",
   timezone |-> "PST (UTC-8)", bestTime |-> "Jun-Sep"],
  [key |-> "mexico city", currency |-> "MXN (MX$)", language |-> "Spanish",
   timezone |-> "CST (UTC-6)", bestTime |-> "Nov-Apr"],
  [key |-> "mexico", currency |-> "MXN (MX$)", language |-> "Spanish",
   timezone |-> "CST (UTC-6)", bestTime |-> "Nov-Apr"],
  [key |-> "rio de janeiro", currency |-> "BRL (R$)", language |-> "Portuguese",
   timezone |-> "BRT (UTC-3)", bestTime |-> "Dec-Mar"],
  [key |-> "brazil", currency |-> "BRL (R$)", language |-> "Portuguese",
   timezone |-> "BRT (UTC-3)", bestTime |-> "Dec-Mar"],
  [key |-> "sao paulo", currency |-> "BRL (R$)", language |-> "Portuguese",
   timezone |-> "BRT (UTC-3)", bestTime |-> "Mar-May, Sep-Nov"],
  [key |-> "buenos aires", currency |-> "ARS ($)", language |-> "Spanish",
   timezone |-> "ART (UTC-3)", bestTime |-> "Oct-Apr"],
  [key |-> "argentina", currency |-> "ARS ($)", language |-> "Spanish",
   timezone |-> "ART (UTC-3)", bestTime |-> "Oct-Apr"],
  [key |-> "lima", currency |-> "PEN (S/)", language |-> "Spanish",
   timezone |-> "PET (UTC-5)", bestTime |-> "May-Sep"],
  [key |-> "peru", currency |-> "PEN (S/)", language |-> "Spanish",
   timezone |-> "PET (UTC-5)", bestTime |-> "May-Sep"],
  [key |-> "bogota", currency |-> "COP ($)", language |-> "Spanish",
   timezone |-> "COT (UTC-5)", bestTime |-> "Dec-Mar"],
  [key |-> "colombia", currency |-> "COP ($)", language |-> "Spanish",
   timezone |-> "COT (UTC-5)", bestTime |-> "Dec-Mar"],
  [key |-> "sydney", currency |-> "AUD (A$)", language |-> "English",
   timezone |-> "AEST (UTC+10)", bestTime |-> "Sep-Nov, Mar-May"],
  [key |-> "australia", currency |-> "AUD (A$)", language |-> "English",
   timezone |-> "AEST (UTC+10)", bestTime |-> "Sep-Nov, Mar-May"],
  [key |-> "melbourne", currency |-> "AUD (A$)", language |-> "English",
   timezone |-> "AEST (UTC+10)", bestTime |-> "Sep-Nov, Mar-May"],
  [key |-> "auckland", currency |-> "NZD (NZ$)", language |-> "English, Maori",
   timezone |-> "NZST (UTC+12)", bestTime |-> "Dec-Feb"],
  [key |-> "new zealand", currency |-> "NZD (NZ$)", language |-> "English, Maori",
   timezone |-> "NZST (UTC+12)", bestTime |-> "Dec-Feb"],
  [key |-> "cairo", currency |-> "EGP (E)", language |-> "Arabic",
   timezone |-> "EET (UTC+2)", bestTime |-> "Oct-Apr"],
  [key |-> "egypt", currency |-> "EGP (E)", language |-> "Arabic",
   timezone |-> "EET (UTC+2)", bestTime |-> "Oct-Apr"],
  [key |-> "cape town", currency |-> "ZAR (R)", language |-> "English, Afrikaans",
   timezone |-> "SAST (UTC+2)", bestTime |-> "Nov-Feb"],
  [key |-> "south africa", currency |-> "ZAR (R)", language |-> "English, Afrikaans",
   timezone |-> "SAST (UTC+2)", bestTime |-> "Nov-Feb"],
  [key |-> "nairobi", currency |-> "KES (KSh)", language |-> "English, Swahili",
   timezone |-> "EAT (UTC+3)", bestTime |-> "Jan-Mar, Jul-Oct"],
  [key |-> "kenya", currency |-> "KES (KSh)", language |-> "English, Swahili",
   timezone |-> "EAT (UTC+3)", bestTime |-> "Jan-Mar, Jul-Oct"],
  [key |-> "marrakech", currency |-> "MAD (..)", language |-> "Arabic, French",
   timezone |-> "WET (UTC+0)", bestTime |-> "Mar-May, Sep-Nov"],
  [key |-> "morocco", currency |-> "MAD (..)", language |-> "Arabic, French",
   timezone |-> "WET (UTC+0)", bestTime |-> "Mar-May, Sep-Nov"]
>>

\* one map, as its entries in the order of the literal
MapOf(field) == [i \in DOMAIN DestinationTable |->
                   <<DestinationTable[i].key, DestinationTable[i][field]>>]

CurrencyMap == MapOf("currency")

LanguageMap == MapOf("language")

TimezoneMap == MapOf("timezone")

BestTimeMap == MapOf("bestTime")

\* map[name], <<>> when the map has no such key
Lookup(map, name) ==
  LET at == {i \in DOMAIN map : map[i][1] = name}
  IN IF at = {} THEN <<>> ELSE <<map[CHOOSE i \in at : TRUE][2]>>

\* findMatch: the city name, then the full destination, then the first entry
\* whose key occurs in the text or whose key contains the city name
FindMatch(map, searchText, cityName) ==
  IF Lookup(map, cityName) # <<>> THEN Lookup(map, cityName)
  ELSE IF Lookup(map, searchText) # <<>> THEN Lookup(map, searchText)
  ELSE LET hits == {i \in DOMAIN map : \/ Includes(searchText, map[i][1])
                                       \/ Includes(map[i][1], cityName)}
       IN IF hits = {} THEN <<>>
          ELSE <<map[CHOOSE i \in hits : \A j \in hits : i <= j][2]>>

\* found || fallback
OrElse(found, fallback) == IF found = <<>> THEN fallback ELSE found[1]

DefaultInfo ==
  [currency |-> "USD ($)", language |-> "English",
   timezone |-> "UTC+0 (GMT)", bestTime |-> "Mar-May, Sep-Nov"]

GetDestinationInfoOf(destination) ==
  LET destLower == DestLower(destination)
      cityName == CityName(destination)
  IN [currency |-> OrElse(FindMatch(CurrencyMap, destLower, cityName), DefaultInfo.currency),
      language |-> OrElse(FindMatch(LanguageMap, destLower, cityName), DefaultInfo.language),
      timezone |-> OrElse(FindMatch(TimezoneMap, destLower, cityName), DefaultInfo.timezone),
      bestTime |-> OrElse(FindMatch(BestTimeMap, destLower, cityName), DefaultInfo.bestTime)]

\* the destinations shown: a city part and what follows it
CityParts ==
  {"", "Paris", "PARIS", " paris ", "Lyon", "York", "Nice", "Goa", "Atlantis",
   "Osaka", "New York", "Rio", "Bali"}

RestParts ==
  {"", ", France", ", Japan", ",japan ", ", UK", ", Atlantis", " city",
   ", Indonesia", ", Ukraine"}

Destinations == {city \o rest : city \in CityParts, rest \in RestParts}

Info(info) == [status |-> 200, kind |-> "info", info |-> info]

\* the card of an itinerary of that destination is rendered for a viewer
GetDestinationInfo ==
  /\ Idle
  /\ \E u \in Users, destination \in Destinations :
       /\ req' = Request("INFO", u, 0, destination)
       /\ resp' = Info(GetDestinationInfoOf(destination))
  /\ UNCHANGED <<itins, nextId, users, calls>>

NextInfo == GetDestinationInfo \/ ReadResponse

SpecInfo == Init /\ [][NextInfo]_vars

\* some key of the table is the city name or the destination, or occurs in it
NamesKey(destination) ==
  \E i \in DOMAIN DestinationTable :
    LET key == DestinationTable[i].key
    IN \/ key = CityName(destination)
       \/ key = DestLower(destination)
       \/ Includes(DestLower(destination), key)

\* C30: the information shown for a destination that names no key of the
\* table (no key is its city name or the whole destination, and none occurs
\* in its text) is the defaults: USD ($), English, UTC+0 (GMT), Mar-May, Sep-Nov.
C30_DefaultsUnlessKeyNamed ==
  (req.op = "INFO" /\ ~NamesKey(req.arg)) => resp.info = DefaultInfo

====
